---- MODULE Spec2Model ----
(***************************************************************************)
(* Model of tensorflow/contrib/learn/python/learn/estimators/estimator.py: *)
(* the input adapter, the signature checker, the model function invoker,   *)
(* the metrics assembler and the fit / evaluate / predict lifecycle of     *)
(* BaseEstimator and Estimator.                                            *)
(***************************************************************************)
EXTENDS Integers, Sequences, FiniteSets, TLC

(* ----------------------------- bounds ---------------------------------- *)
\* number of graphs one behaviour may construct (every call that gets past
\* its argument and checkpoint checks constructs one)
MaxGraphs == 2
\* largest task index of a worker
MaxTask == 2
\* largest number of entries of a user metrics dict
MaxMetrics == 2
\* largest rank and largest dimension of a loss shape
MaxRank == 2
MaxDim == 2
\* longest list of monitors handed to fit
MaxMonitors == 2
\* most batches of an input and most examples of a batch
MaxBatches == 2
MaxBatch == 2
\* number of consecutive calls of partial_fit that are compared with fit
MaxCalls == 2
\* the reads of the config property
MaxReads == 2
\* most columns of a DataFrame
MaxColumns == 2

(* --------------------------- python values ----------------------------- *)
None == "None"

ModeKeys == [TRAIN |-> "train", EVAL |-> "eval", INFER |-> "infer"]

NoError == [type |-> "None", msg |-> ""]
ValueError(m) == [type |-> "ValueError", msg |-> m]
NotFittedError(m) == [type |-> "NotFittedError", msg |-> m]

EmptyFn == [k \in {} |-> 0]
Put(d, k, v) == [j \in (DOMAIN d) \cup {k} |-> IF j = k THEN v ELSE d[j]]

(* ------------------------- shapes and tensors -------------------------- *)
\* A TensorShape: rank unknown, or a sequence of dimensions, -1 = unknown.
UnknownShape == [known |-> FALSE, dims |-> <<>>]
Shape(ds) == [known |-> TRUE, dims |-> ds]
scalar == Shape(<<>>)

RECURSIVE Product(_)
Product(ds) == IF ds = <<>> THEN 1 ELSE Head(ds) * Product(Tail(ds))

\* TensorShape.num_elements(): the number of elements, or None (here -1)
\* when the shape is not fully defined.
NoneNum == 0 - 1
num_elements(s) ==
    IF ~s.known \/ (\E i \in DOMAIN s.dims : s.dims[i] < 0)
    THEN NoneNum
    ELSE Product(s.dims)

\* TensorShape.is_compatible_with(other)
is_compatible_with(s, t) ==
    \/ ~s.known
    \/ ~t.known
    \/ /\ Len(s.dims) = Len(t.dims)
       /\ \A i \in DOMAIN s.dims :
             s.dims[i] < 0 \/ t.dims[i] < 0 \/ s.dims[i] = t.dims[i]

\* A tensor of the graph: the op that produces it, its dtype and shape.
\* A python value that is not a tensor yet has op "value".
Tensor(op, dtype, shape) == [op |-> op, dtype |-> dtype, shape |-> shape]

\* ops.convert_to_tensor / convert_to_tensor_or_sparse_tensor: a tensor is
\* returned as it is, any other value becomes a constant of the graph.
convert_to_tensor(v) == IF v.op = "value" THEN [v EXCEPT !.op = "Const"] ELSE v

\* array_ops.reshape(t, [])
reshape(t) == [t EXCEPT !.op = "Reshape", !.shape = scalar]

\* features, targets and predictions: None, one tensor, or a dict of tensors
NoneT == [kind |-> "none", items |-> EmptyFn]
Single(t) == [kind |-> "single", items |-> [k \in {""} |-> t]]
Dict(f) == [kind |-> "dict", items |-> f]
IsDict(v) == v.kind = "dict"
IsNone(v) == v.kind = "none"
TheTensor(v) == v.items[""]

(* -------------------------- tensor signatures -------------------------- *)
TensorSignature(t) == [dtype |-> t.dtype, shape |-> t.shape]

\* tensor_signature.create_signatures
create_signatures(tensors) ==
    [kind |-> tensors.kind,
     items |-> [k \in DOMAIN tensors.items |-> TensorSignature(tensors.items[k])]]

\* tensor_signature.tensors_compatible: same structure, same keys, and every
\* tensor of a compatible dtype and shape
tensors_compatible(tensors, signatures) ==
    /\ tensors.kind = signatures.kind
    /\ DOMAIN tensors.items = DOMAIN signatures.items
    /\ \A k \in DOMAIN tensors.items :
          /\ tensors.items[k].dtype = signatures.items[k].dtype
          /\ is_compatible_with(tensors.items[k].shape, signatures.items[k].shape)

\* tensor_signature.create_placeholders_from_signatures
create_placeholders_from_signatures(signatures) ==
    [kind |-> signatures.kind,
     items |-> [k \in DOMAIN signatures.items |->
                  Tensor("Placeholder", signatures.items[k].dtype,
                         signatures.items[k].shape)]]

(* ----------------------------- _get_input_fn --------------------------- *)
\* x, y: None, "array" or "Tensor"; input_fn, feed_fn: None or "fn";
\* batch_size: None or "int".
is_tensor(v) == v = "Tensor"

_get_input_fn_unchecked(x, y, input_fn, feed_fn, batch_size) ==
    IF input_fn = None
    THEN IF x = None
         THEN [error |-> ValueError("Either x or input_fn must be provided."),
               input_fn |-> None, feed_fn |-> None, trace |-> <<>>]
         ELSE [error |-> NoError, input_fn |-> "input_builder",
               feed_fn |-> "feed_dict_fn", trace |-> <<"setup_train_data_feeder">>]
    ELSE [error |-> NoError, input_fn |-> input_fn, feed_fn |-> feed_fn,
          trace |-> <<>>]

_get_input_fn_feeding_tensors(x, y, input_fn, feed_fn, batch_size) ==
    IF input_fn = None
    THEN IF x = None
         THEN [error |-> ValueError("Either x or input_fn must be provided."),
               input_fn |-> None, feed_fn |-> None, trace |-> <<>>]
         ELSE [error |-> NoError, input_fn |-> "input_builder",
               feed_fn |-> "feed_dict_fn", trace |-> <<"setup_train_data_feeder">>]
    ELSE IF x # None \/ y # None
    THEN [error |-> ValueError("Can not provide both input_fn and x or y."),
          input_fn |-> None, feed_fn |-> None, trace |-> <<>>]
    ELSE IF batch_size # None
    THEN [error |-> ValueError("Can not provide both input_fn and batch_size."),
          input_fn |-> None, feed_fn |-> None, trace |-> <<>>]
    ELSE [error |-> NoError, input_fn |-> input_fn, feed_fn |-> feed_fn,
          trace |-> <<>>]

_get_input_fn(x, y, input_fn, feed_fn, batch_size) ==
    IF input_fn = None
    THEN IF x = None
         THEN [error |-> ValueError("Either x or input_fn must be provided."),
               input_fn |-> None, feed_fn |-> None, trace |-> <<>>]
         ELSE IF is_tensor(x) \/ (y # None /\ is_tensor(y))
         THEN [error |-> ValueError("Inputs cannot be tensors. Please provide input_fn."),
               input_fn |-> None, feed_fn |-> None, trace |-> <<>>]
         ELSE IF feed_fn # None
         THEN [error |-> ValueError("Can not provide both feed_fn and x or y."),
               input_fn |-> None, feed_fn |-> None, trace |-> <<>>]
         ELSE [error |-> NoError, input_fn |-> "input_builder",
               feed_fn |-> "feed_dict_fn", trace |-> <<"setup_train_data_feeder">>]
    ELSE IF x # None \/ y # None
    THEN [error |-> ValueError("Can not provide both input_fn and x or y."),
          input_fn |-> None, feed_fn |-> None, trace |-> <<>>]
    ELSE IF batch_size # None
    THEN [error |-> ValueError("Can not provide both input_fn and batch_size."),
          input_fn |-> None, feed_fn |-> None, trace |-> <<>>]
    ELSE [error |-> NoError, input_fn |-> input_fn, feed_fn |-> feed_fn,
          trace |-> <<>>]

(* ------------------------ the estimator object ------------------------- *)
\* BaseEstimator.__init__: no signature recorded, no graph.  graph is the id
\* of self._graph (0 = None); next_graph counts the ops.Graph() objects
\* constructed so far, so that every new graph gets a fresh id; checkpoint is
\* the global step of the latest checkpoint in model_dir (0 = no checkpoint).
NewEstimator(ckpt) ==
    [features_info |-> NoneT, targets_info |-> NoneT,
     graph |-> 0, next_graph |-> 0, checkpoint |-> ckpt]

\* saver.latest_checkpoint(model_dir): the path of the latest checkpoint, or
\* None (0) when model_dir holds none
latest_checkpoint(self) == self.checkpoint

(* ----------------------------- _check_inputs --------------------------- *)
_check_inputs_overwriting(self, features, targets) ==
    LET f_bad == /\ ~IsNone(self.features_info)
                 /\ ~tensors_compatible(features, self.features_info)
        s1 == [self EXCEPT !.features_info = create_signatures(features)]
    IN  IF f_bad
        THEN [self |-> self,
              error |-> ValueError("Features are incompatible with given information.")]
        ELSE IF IsNone(targets) THEN [self |-> s1, error |-> NoError]
        ELSE [self |-> [s1 EXCEPT !.targets_info = create_signatures(targets)],
              error |-> NoError]

_check_inputs_targets_first(self, features, targets) ==
    LET t_bad == /\ ~IsNone(targets)
                 /\ ~IsNone(self.targets_info)
                 /\ ~tensors_compatible(targets, self.targets_info)
        s1 == IF ~IsNone(targets) /\ IsNone(self.targets_info)
              THEN [self EXCEPT !.targets_info = create_signatures(targets)]
              ELSE self
        f_bad == /\ ~IsNone(s1.features_info)
                 /\ ~tensors_compatible(features, s1.features_info)
        s2 == IF IsNone(s1.features_info)
              THEN [s1 EXCEPT !.features_info = create_signatures(features)]
              ELSE s1
    IN  IF t_bad
        THEN [self |-> self,
              error |-> ValueError("Targets are incompatible with given information.")]
        ELSE IF f_bad
        THEN [self |-> s1,
              error |-> ValueError("Features are incompatible with given information.")]
        ELSE [self |-> s2, error |-> NoError]

_check_inputs(self, features, targets) ==
    LET f_bad == /\ ~IsNone(self.features_info)
                 /\ ~tensors_compatible(features, self.features_info)
        s1 == IF IsNone(self.features_info)
              THEN [self EXCEPT !.features_info = create_signatures(features)]
              ELSE self
        t_bad == /\ ~IsNone(targets)
                 /\ ~IsNone(s1.targets_info)
                 /\ ~tensors_compatible(targets, s1.targets_info)
        s2 == IF ~IsNone(targets) /\ IsNone(s1.targets_info)
              THEN [s1 EXCEPT !.targets_info = create_signatures(targets)]
              ELSE s1
    IN  IF f_bad
        THEN [self |-> self,
              error |-> ValueError("Features are incompatible with given information.")]
        ELSE IF t_bad
        THEN [self |-> s1,
              error |-> ValueError("Targets are incompatible with given information.")]
        ELSE [self |-> s2, error |-> NoError]

(* ----------------------------- _call_model_fn -------------------------- *)
\* The value the user's model_fn returns: (predictions, loss, train_op).
\* loss is a tensor, a python value, or None; train_op is None, "Operation"
\* or "Tensor".
NoLoss == Tensor(None, None, UnknownShape)
LossIsNone(l) == l.op = None

_identity_feature_engineering_fn(features, targets) ==
    [features |-> features, targets |-> targets]

\* m is what model_fn returns when called with the engineered features and
\* targets in the given mode
_call_model_fn_unvalidated(features, targets, mode, m) ==
    LET fe == _identity_feature_engineering_fn(features, targets)
        train_op == IF m.train_op = None \/ m.train_op = "Operation"
                    THEN m.train_op ELSE "Tensor.op"
        l0 == convert_to_tensor(m.loss)
        loss == IF LossIsNone(m.loss) THEN m.loss
                ELSE IF ~is_compatible_with(l0.shape, scalar) THEN reshape(l0)
                ELSE l0
        predictions ==
            [kind |-> m.predictions.kind,
             items |-> [k \in DOMAIN m.predictions.items |->
                          convert_to_tensor(m.predictions.items[k])]]
        called == [features |-> fe.features, targets |-> fe.targets, mode |-> mode]
        Fail(e) == [error |-> e, predictions |-> NoneT, loss |-> NoLoss,
                    train_op |-> None, called |-> called]
    IN  IF ~LossIsNone(m.loss) /\ num_elements(l0.shape) \notin {NoneNum, 1}
        THEN Fail(ValueError("Loss must be scalar."))
        ELSE [error |-> NoError, predictions |-> predictions, loss |-> loss,
              train_op |-> train_op, called |-> called]

_call_model_fn_reducing(features, targets, mode, m) ==
    LET fe == _identity_feature_engineering_fn(features, targets)
        train_op == IF m.train_op = None \/ m.train_op = "Operation"
                    THEN m.train_op ELSE "Tensor.op"
        l0 == convert_to_tensor(m.loss)
        loss == IF LossIsNone(m.loss) THEN m.loss
                ELSE IF ~is_compatible_with(l0.shape, scalar) THEN reshape(l0)
                ELSE l0
        predictions ==
            [kind |-> m.predictions.kind,
             items |-> [k \in DOMAIN m.predictions.items |->
                          convert_to_tensor(m.predictions.items[k])]]
        called == [features |-> fe.features, targets |-> fe.targets, mode |-> mode]
        Fail(e) == [error |-> e, predictions |-> NoneT, loss |-> NoLoss,
                    train_op |-> None, called |-> called]
    IN  IF m.train_op = None /\ mode = ModeKeys.TRAIN
        THEN Fail(ValueError("Missing train_op."))
        ELSE IF LossIsNone(m.loss) /\ mode \in {ModeKeys.TRAIN, ModeKeys.EVAL}
        THEN Fail(ValueError("Missing loss."))
        ELSE IF IsNone(m.predictions) /\ mode = ModeKeys.INFER
        THEN Fail(ValueError("Missing predictions."))
        ELSE [error |-> NoError, predictions |-> predictions, loss |-> loss,
              train_op |-> train_op, called |-> called]

_call_model_fn_not_reshaping(features, targets, mode, m) ==
    LET fe == _identity_feature_engineering_fn(features, targets)
        train_op == IF m.train_op = None \/ m.train_op = "Operation"
                    THEN m.train_op ELSE "Tensor.op"
        l0 == convert_to_tensor(m.loss)
        loss == IF LossIsNone(m.loss) THEN m.loss
                ELSE l0
        predictions ==
            [kind |-> m.predictions.kind,
             items |-> [k \in DOMAIN m.predictions.items |->
                          convert_to_tensor(m.predictions.items[k])]]
        called == [features |-> fe.features, targets |-> fe.targets, mode |-> mode]
        Fail(e) == [error |-> e, predictions |-> NoneT, loss |-> NoLoss,
                    train_op |-> None, called |-> called]
    IN  IF m.train_op = None /\ mode = ModeKeys.TRAIN
        THEN Fail(ValueError("Missing train_op."))
        ELSE IF LossIsNone(m.loss) /\ mode \in {ModeKeys.TRAIN, ModeKeys.EVAL}
        THEN Fail(ValueError("Missing loss."))
        ELSE IF ~LossIsNone(m.loss) /\ num_elements(l0.shape) \notin {NoneNum, 1}
        THEN Fail(ValueError("Loss must be scalar."))
        ELSE IF IsNone(m.predictions) /\ mode = ModeKeys.INFER
        THEN Fail(ValueError("Missing predictions."))
        ELSE [error |-> NoError, predictions |-> predictions, loss |-> loss,
              train_op |-> train_op, called |-> called]

_call_model_fn(features, targets, mode, m) ==
    LET fe == _identity_feature_engineering_fn(features, targets)
        train_op == IF m.train_op = None \/ m.train_op = "Operation"
                    THEN m.train_op ELSE "Tensor.op"
        l0 == convert_to_tensor(m.loss)
        loss == IF LossIsNone(m.loss) THEN m.loss
                ELSE IF ~is_compatible_with(l0.shape, scalar) THEN reshape(l0)
                ELSE l0
        predictions ==
            [kind |-> m.predictions.kind,
             items |-> [k \in DOMAIN m.predictions.items |->
                          convert_to_tensor(m.predictions.items[k])]]
        called == [features |-> fe.features, targets |-> fe.targets, mode |-> mode]
        Fail(e) == [error |-> e, predictions |-> NoneT, loss |-> NoLoss,
                    train_op |-> None, called |-> called]
    IN  IF m.train_op = None /\ mode = ModeKeys.TRAIN
        THEN Fail(ValueError("Missing train_op."))
        ELSE IF LossIsNone(m.loss) /\ mode \in {ModeKeys.TRAIN, ModeKeys.EVAL}
        THEN Fail(ValueError("Missing loss."))
        ELSE IF ~LossIsNone(m.loss) /\ num_elements(l0.shape) \notin {NoneNum, 1}
        THEN Fail(ValueError("Loss must be scalar."))
        ELSE IF IsNone(m.predictions) /\ mode = ModeKeys.INFER
        THEN Fail(ValueError("Missing predictions."))
        ELSE [error |-> NoError, predictions |-> predictions, loss |-> loss,
              train_op |-> train_op, called |-> called]

\* Estimator._get_train_ops
_get_train_ops(features, targets, m) ==
    _call_model_fn(features, targets, ModeKeys.TRAIN, m)

(* ------------------------------- metrics ------------------------------- *)
\* A key of a metrics dict: a string name, or a tuple of strings.
Name(n) == [tuple |-> FALSE, parts |-> <<n>>]
TupleName(ps) == [tuple |-> TRUE, parts |-> ps]

\* A metric of a metrics dict: a MetricSpec object or a bare metric function;
\* returns tells what the metric function returns: a "pair" of tensors, one
\* "tensor", or a "triple".
Metric(kind, id, returns) == [kind |-> kind, id |-> id, returns |-> returns]

\* The value a metric yields: which function made it, from which arguments.
MetricOps(op, id, returns, args) ==
    [op |-> op, id |-> id, returns |-> returns, args |-> args]

\* MetricSpec.create_metric_ops(features, targets, predictions)
create_metric_ops(metric, features, targets, predictions) ==
    MetricOps("create_metric_ops", metric.id, metric.returns,
              <<features, targets, predictions>>)

\* metric(predictions, targets) for a bare metric function
apply_metric(metric, predictions, targets) ==
    MetricOps("metric_fn", metric.id, metric.returns, <<predictions, targets>>)

\* metrics_lib.streaming_mean(value): a (value, update op) pair
streaming_mean(value) ==
    MetricOps("streaming_mean", "", "pair", <<Single(value)>>)

KeyError(k) == [type |-> "KeyError", msg |-> k]

\* the loop of _make_metrics_ops over six.iteritems(metrics), in the order
\* the dict happens to iterate
RECURSIVE _make_metrics_loop(_, _, _, _, _, _)
_make_metrics_loop(order, metrics, features, targets, predictions, result) ==
    IF order = <<>> THEN [error |-> NoError, result |-> result]
    ELSE
    LET name == Head(order)
        metric == metrics[name]
        Continue(r) == _make_metrics_loop(Tail(order), metrics, features,
                                          targets, predictions, r)
    IN  IF metric.kind = "MetricSpec"
        THEN Continue(Put(result, name,
                          create_metric_ops(metric, features, targets, predictions)))
        ELSE IF name.tuple
        THEN IF Len(name.parts) # 2
             THEN [error |-> ValueError("Invalid metric. It returned a tuple with len, expected 2."),
                   result |-> result]
             ELSE IF ~IsDict(predictions)
             THEN [error |-> ValueError("Metrics passed provide (name, prediction), but predictions are not dict."),
                   result |-> result]
             ELSE IF name.parts[2] \notin DOMAIN predictions.items
             THEN [error |-> KeyError(name.parts[2]), result |-> result]
             ELSE IF IsDict(targets) /\ name.parts[2] \in DOMAIN targets.items
             THEN Continue(Put(result, Name(name.parts[1]),
                               apply_metric(metric,
                                            Single(predictions.items[name.parts[2]]),
                                            Single(targets.items[name.parts[2]]))))
             ELSE Continue(Put(result, Name(name.parts[1]),
                               apply_metric(metric,
                                            Single(predictions.items[name.parts[2]]),
                                            targets)))
        ELSE IF IsDict(predictions)
        THEN [error |-> ValueError("Metrics passed provide only name, no prediction, but predictions are dict."),
              result |-> result]
        ELSE Continue(Put(result, name, apply_metric(metric, predictions, targets)))

\* metrics is the dict (None is the empty dict: metrics or {})
_make_metrics_ops_not_unpacking(metrics, order, features, targets, predictions) ==
    _make_metrics_loop(order, metrics, features, targets, predictions, EmptyFn)

_make_metrics_ops(metrics, order, features, targets, predictions) ==
    LET unpacked == IF IsDict(targets) /\ Cardinality(DOMAIN targets.items) = 1
                    THEN Single(targets.items[CHOOSE k \in DOMAIN targets.items : TRUE])
                    ELSE targets
    IN  _make_metrics_loop(order, metrics, features, unpacked, predictions, EmptyFn)

_maybe_add_streaming_mean_overwriting(result, key, value) ==
    Put(result, key, streaming_mean(value))

_maybe_add_streaming_mean(result, key, value) ==
    IF key \in DOMAIN result THEN result
    ELSE Put(result, key, streaming_mean(value))

RECURSIVE AddPredictionMeans(_, _, _)
AddPredictionMeans(result, keys, predictions) ==
    IF keys = {} THEN result
    ELSE LET k == CHOOSE j \in keys : TRUE
         IN  AddPredictionMeans(
                 _maybe_add_streaming_mean(result, Name(k), predictions.items[k]),
                 keys \ {k}, predictions)

\* Estimator._get_eval_ops
_get_eval_ops(features, targets, metrics, order, m) ==
    LET WithPredictions(result, predictions) ==
            IF IsNone(predictions) THEN result
            ELSE IF IsDict(predictions)
            THEN AddPredictionMeans(result, DOMAIN predictions.items, predictions)
            ELSE _maybe_add_streaming_mean(result, Name("predictions"),
                                           TheTensor(predictions))
        WithLoss(ops, made) ==
            IF ops.error # NoError
            THEN [error |-> ops.error, result |-> EmptyFn, called |-> ops.called]
            ELSE IF made.error # NoError
            THEN [error |-> made.error, result |-> EmptyFn, called |-> ops.called]
            ELSE [error |-> NoError, called |-> ops.called,
                  result |-> WithPredictions(
                                 _maybe_add_streaming_mean(made.result, Name("loss"),
                                                           ops.loss),
                                 ops.predictions)]
        WithMetrics(ops) ==
            WithLoss(ops, _make_metrics_ops(metrics, order, features, targets,
                                            ops.predictions))
    IN  WithMetrics(_call_model_fn(features, targets, ModeKeys.EVAL, m))

\* one element of the tuple a metric returned
Part(ops, i) == [of |-> ops, part |-> i]
Whole(ops) == [of |-> ops, part |-> 0 - 1]

\* BaseEstimator._extract_metric_update_ops; the grouped update op is the
\* set of its inputs, None is the empty set
_extract_metric_update_ops(eval_dict) ==
    [update_ops |-> {Part(eval_dict[n], 1) :
                        n \in {j \in DOMAIN eval_dict : eval_dict[j].returns = "pair"}},
     value_ops |-> [n \in DOMAIN eval_dict |->
                      IF eval_dict[n].returns = "pair" THEN Part(eval_dict[n], 0)
                      ELSE Whole(eval_dict[n])]]

(* ------------------------------ the engine ----------------------------- *)
\* What a call returns, or None.
Ret(kind, val) == [kind |-> kind, val |-> val]
NoRet == Ret(None, 0)

\* The outcome of a call: the estimator afterwards, the error raised (if
\* any), the steps taken in order, and the value returned.
\* slept: the seconds the call slept; hooks: the hooks handed to the
\* training loop; bound: the monitors set_estimator was called on; called: the
\* arguments the model function was called with.
NoArguments == [features |-> NoneT, targets |-> NoneT, mode |-> None]
Outcome(self, error, trace, ret) ==
    [self |-> self, error |-> error, trace |-> trace, ret |-> ret,
     slept |-> 0, hooks |-> <<>>, bound |-> <<>>, called |-> NoArguments]

Min(a, b) == IF a < b THEN a ELSE b

\* graph_actions._monitored_train: runs the training loop and leaves a
\* checkpoint of the advanced global step in model_dir; returns the loss
_monitored_train(self) == [self EXCEPT !.checkpoint = self.checkpoint + 1]

\* graph_actions.evaluate: restores the latest checkpoint, runs update_op
\* for each step, and returns the final value of every entry of eval_dict
\* and the global step of the checkpoint
MetricValue(value_op, step) == [value_op |-> value_op, step |-> step]
graph_actions_evaluate(self, eval_dict, update_op) ==
    [eval_results |-> [n \in DOMAIN eval_dict |->
                         MetricValue(eval_dict[n], self.checkpoint)],
     current_global_step |-> self.checkpoint]

(* ----------------------------- _train_model ---------------------------- *)
\* A monitor of the monitors argument: a SessionRunHook (hook), or a
\* deprecated monitor that runs on every worker or on the chief only.
Monitor(id, hook, run_on_all_workers) ==
    [id |-> id, hook |-> hook, run_on_all_workers |-> run_on_all_workers,
     monitors |-> <<>>]
\* monitor_lib.RunHookAdapterForMonitors(monitors): one hook that drives the
\* given monitors
RunHookAdapterForMonitors(monitors) ==
    [id |-> "RunHookAdapterForMonitors", hook |-> TRUE,
     run_on_all_workers |-> TRUE, monitors |-> monitors]

\* config.execution_mode is "absent" when the RunConfig has no such
\* attribute.  The first statement of _train_model: a process whose
\* execution mode is not a training one returns at once.
_never_returns_at_once(config) == FALSE
_returns_at_once(config) ==
    config.execution_mode # "absent" /\ config.execution_mode \notin {"all", "train"}

\* the startup stagger of a worker session
_sleep_secs_unbounded(config) ==
    IF config.execution_mode # "absent"
    THEN config.task * config.training_worker_session_startup_stagger_secs
    ELSE 0
_sleep_secs(config) ==
    IF config.execution_mode # "absent"
    THEN Min(config.training_worker_max_startup_secs,
             config.task * config.training_worker_session_startup_stagger_secs)
    ELSE 0

\* the monitors that are kept: every SessionRunHook, and the deprecated
\* monitors, on a worker that is not the chief only those that run on all
\* workers
_deprecated_monitors_unpruned(monitors, is_chief) ==
    LET IsMonitor(mon) == ~mon.hook
    IN  SelectSeq(monitors, IsMonitor)
_deprecated_monitors(monitors, is_chief) ==
    LET IsMonitor(mon) == ~mon.hook
        RunsOnAllWorkers(mon) == mon.run_on_all_workers
    IN  IF is_chief THEN SelectSeq(monitors, IsMonitor)
        ELSE SelectSeq(SelectSeq(monitors, IsMonitor), RunsOnAllWorkers)

\* monitors is the list given to fit; None is the empty list
_train_model_checking_late(self, config, data, m, monitors) ==
    LET sleep_secs == _sleep_secs(config)
        t0 == IF sleep_secs # 0 THEN <<"sleep">> ELSE <<>>
        g == self.next_graph + 1
        s1 == [self EXCEPT !.graph = g, !.next_graph = g]
        t1 == t0 \o <<"Graph", "create_global_step", "input_fn">>
        IsHook(mon) == mon.hook
        hooks == SelectSeq(monitors, IsHook)
        Train(chk, ops, deprecated_monitors) ==
            IF ops.error # NoError
            THEN [Outcome(s1, ops.error, t1 \o <<"model_fn">>, NoRet) EXCEPT
                     !.slept = sleep_secs, !.called = ops.called]
            ELSE IF chk.error # NoError
            THEN [Outcome(chk.self, chk.error, t1 \o <<"model_fn", "_check_inputs">>,
                          NoRet) EXCEPT
                     !.slept = sleep_secs, !.called = ops.called]
            ELSE [Outcome(_monitored_train(chk.self), NoError,
                          t1 \o <<"model_fn", "_check_inputs", "_monitored_train">>,
                          Ret("loss", ops.loss)) EXCEPT
                     !.slept = sleep_secs, !.called = ops.called,
                     !.bound = deprecated_monitors,
                     !.hooks = IF deprecated_monitors # <<>>
                               THEN Append(hooks,
                                           RunHookAdapterForMonitors(deprecated_monitors))
                               ELSE hooks]
    IN  IF _returns_at_once(config)
        THEN Outcome(self, NoError, <<>>, NoRet)
        ELSE Train(_check_inputs(s1, data.features, data.targets),
                   _get_train_ops(data.features, data.targets, m),
                   _deprecated_monitors(monitors, config.is_chief))

_train_model_keeping_graph(self, config, data, m, monitors) ==
    LET sleep_secs == _sleep_secs(config)
        t0 == IF sleep_secs # 0 THEN <<"sleep">> ELSE <<>>
        g == self.next_graph + 1
        s1 == IF self.graph # 0 THEN self
              ELSE [self EXCEPT !.graph = g, !.next_graph = g]
        t1 == t0 \o <<"Graph", "create_global_step", "input_fn", "_check_inputs">>
        IsHook(mon) == mon.hook
        hooks == SelectSeq(monitors, IsHook)
        Train(chk, ops, deprecated_monitors) ==
            IF chk.error # NoError
            THEN [Outcome(chk.self, chk.error, t1, NoRet) EXCEPT
                     !.slept = sleep_secs]
            ELSE IF ops.error # NoError
            THEN [Outcome(chk.self, ops.error, t1 \o <<"model_fn">>, NoRet) EXCEPT
                     !.slept = sleep_secs, !.called = ops.called]
            ELSE [Outcome(_monitored_train(chk.self), NoError,
                          t1 \o <<"model_fn", "_monitored_train">>,
                          Ret("loss", ops.loss)) EXCEPT
                     !.slept = sleep_secs, !.called = ops.called,
                     !.bound = deprecated_monitors,
                     !.hooks = IF deprecated_monitors # <<>>
                               THEN Append(hooks,
                                           RunHookAdapterForMonitors(deprecated_monitors))
                               ELSE hooks]
    IN  IF _returns_at_once(config)
        THEN Outcome(self, NoError, <<>>, NoRet)
        ELSE Train(_check_inputs(s1, data.features, data.targets),
                   _get_train_ops(data.features, data.targets, m),
                   _deprecated_monitors(monitors, config.is_chief))

_train_model(self, config, data, m, monitors) ==
    LET sleep_secs == _sleep_secs(config)
        t0 == IF sleep_secs # 0 THEN <<"sleep">> ELSE <<>>
        g == self.next_graph + 1
        s1 == [self EXCEPT !.graph = g, !.next_graph = g]
        t1 == t0 \o <<"Graph", "create_global_step", "input_fn", "_check_inputs">>
        IsHook(mon) == mon.hook
        hooks == SelectSeq(monitors, IsHook)
        Train(chk, ops, deprecated_monitors) ==
            IF chk.error # NoError
            THEN [Outcome(chk.self, chk.error, t1, NoRet) EXCEPT
                     !.slept = sleep_secs]
            ELSE IF ops.error # NoError
            THEN [Outcome(chk.self, ops.error, t1 \o <<"model_fn">>, NoRet) EXCEPT
                     !.slept = sleep_secs, !.called = ops.called]
            ELSE [Outcome(_monitored_train(chk.self), NoError,
                          t1 \o <<"model_fn", "_monitored_train">>,
                          Ret("loss", ops.loss)) EXCEPT
                     !.slept = sleep_secs, !.called = ops.called,
                     !.bound = deprecated_monitors,
                     !.hooks = IF deprecated_monitors # <<>>
                               THEN Append(hooks,
                                           RunHookAdapterForMonitors(deprecated_monitors))
                               ELSE hooks]
    IN  IF _returns_at_once(config)
        THEN Outcome(self, NoError, <<>>, NoRet)
        ELSE Train(_check_inputs(s1, data.features, data.targets),
                   _get_train_ops(data.features, data.targets, m),
                   _deprecated_monitors(monitors, config.is_chief))

(* ------------------------------ fit, partial_fit ------------------------ *)
\* a: the arguments [x, y, input_fn, steps, batch_size, monitors, max_steps]
fit_resolving_first(self, config, a, data, m) ==
    LET inp == _get_input_fn(a.x, a.y, a.input_fn, None, a.batch_size)
        Finish(r) ==
            IF r.error # NoError
            THEN [r EXCEPT !.trace = inp.trace \o r.trace]
            ELSE [r EXCEPT !.trace = inp.trace \o r.trace, !.ret = Ret("self", 0)]
    IN  IF inp.error # NoError
        THEN Outcome(self, inp.error, inp.trace, NoRet)
        ELSE IF a.steps # None /\ a.max_steps # None
        THEN Outcome(self, ValueError("Can not provide both steps and max_steps."),
                     inp.trace, NoRet)
        ELSE Finish(_train_model(self, config, data, m, a.monitors))

fit_checking_last(self, config, a, data, m) ==
    LET inp == _get_input_fn(a.x, a.y, a.input_fn, None, a.batch_size)
        Check(r) ==
            IF a.steps # None /\ a.max_steps # None
            THEN Outcome(r.self, ValueError("Can not provide both steps and max_steps."),
                         r.trace, NoRet)
            ELSE r
        Finish(r) ==
            IF r.error # NoError
            THEN Check([r EXCEPT !.trace = inp.trace \o r.trace])
            ELSE Check([r EXCEPT !.trace = inp.trace \o r.trace,
                                 !.ret = Ret("self", 0)])
    IN  IF inp.error # NoError
        THEN Outcome(self, inp.error, inp.trace, NoRet)
        ELSE Finish(_train_model(self, config, data, m, a.monitors))

fit(self, config, a, data, m) ==
    LET inp == _get_input_fn(a.x, a.y, a.input_fn, None, a.batch_size)
        Finish(r) ==
            IF r.error # NoError
            THEN [r EXCEPT !.trace = inp.trace \o r.trace]
            ELSE [r EXCEPT !.trace = inp.trace \o r.trace, !.ret = Ret("self", 0)]
    IN  IF a.steps # None /\ a.max_steps # None
        THEN Outcome(self, ValueError("Can not provide both steps and max_steps."),
                     <<>>, NoRet)
        ELSE IF inp.error # NoError
        THEN Outcome(self, inp.error, inp.trace, NoRet)
        ELSE Finish(_train_model(self, config, data, m, a.monitors))

\* a: the arguments [x, y, input_fn, steps, batch_size, monitors]
partial_fit_with_max_steps(self, config, a, data, m) ==
    fit(self, config,
        [x |-> a.x, y |-> a.y, input_fn |-> a.input_fn, steps |-> a.steps,
         batch_size |-> a.batch_size, monitors |-> a.monitors,
         max_steps |-> a.steps],
        data, m)

partial_fit(self, config, a, data, m) ==
    fit(self, config,
        [x |-> a.x, y |-> a.y, input_fn |-> a.input_fn, steps |-> a.steps,
         batch_size |-> a.batch_size, monitors |-> a.monitors, max_steps |-> None],
        data, m)

(* ------------------------- _evaluate_model, evaluate -------------------- *)
_evaluate_model_late_lookup(self, config, data, m, metrics, order) ==
    LET g == self.next_graph + 1
        s1 == [self EXCEPT !.next_graph = g]
        t1 == <<"Graph", "create_global_step", "input_fn", "_check_inputs">>
        Results(res, ex) ==
            Ret("results", [eval_results |-> res.eval_results,
                            global_step |-> res.current_global_step,
                            eval_dict |-> ex.value_ops,
                            update_op |-> ex.update_ops])
        Run(chk, ev, ex) ==
            IF chk.error # NoError
            THEN Outcome(chk.self, chk.error, t1, NoRet)
            ELSE IF ev.error # NoError
            THEN Outcome(chk.self, ev.error, t1 \o <<"model_fn">>, NoRet)
            ELSE Outcome(chk.self, NoError,
                         t1 \o <<"model_fn", "latest_checkpoint",
                                 "graph_actions.evaluate">>,
                         Results(graph_actions_evaluate(chk.self, ex.value_ops,
                                                        ex.update_ops), ex))
        Build(chk, ev) == Run(chk, ev, _extract_metric_update_ops(ev.result))
    IN  Build(_check_inputs(s1, data.features, data.targets),
              _get_eval_ops(data.features, data.targets, metrics, order, m))

_evaluate_model(self, config, data, m, metrics, order) ==
    LET latest_path == latest_checkpoint(self)
        g == self.next_graph + 1
        s1 == [self EXCEPT !.next_graph = g]
        t1 == <<"latest_checkpoint", "Graph", "create_global_step", "input_fn",
                "_check_inputs">>
        Results(res, ex) ==
            Ret("results", [eval_results |-> res.eval_results,
                            global_step |-> res.current_global_step,
                            eval_dict |-> ex.value_ops,
                            update_op |-> ex.update_ops])
        Run(chk, ev, ex) ==
            IF chk.error # NoError
            THEN Outcome(chk.self, chk.error, t1, NoRet)
            ELSE IF ev.error # NoError
            THEN [Outcome(chk.self, ev.error, t1 \o <<"model_fn">>, NoRet) EXCEPT
                     !.called = ev.called]
            ELSE [Outcome(chk.self, NoError,
                          t1 \o <<"model_fn", "graph_actions.evaluate">>,
                          Results(graph_actions_evaluate(chk.self, ex.value_ops,
                                                         ex.update_ops), ex)) EXCEPT
                     !.called = ev.called]
        Build(chk, ev) == Run(chk, ev, _extract_metric_update_ops(ev.result))
    IN  IF config.execution_mode # "absent"
           /\ config.execution_mode \notin {"all", "evaluate", "eval_evalset"}
        THEN Outcome(self, NoError, <<>>, NoRet)
        ELSE IF latest_path = 0
        THEN Outcome(self, NotFittedError("Couldn't find trained model."),
                     <<"latest_checkpoint">>, NoRet)
        ELSE Build(_check_inputs(s1, data.features, data.targets),
                   _get_eval_ops(data.features, data.targets, metrics, order, m))

\* a: the arguments [x, y, input_fn, feed_fn, batch_size, metrics]; a.metrics
\* is [type |-> None, "dict" or "other", d |-> the dict]
evaluate_without_global_step(self, config, a, data, m, order) ==
    LET inp == _get_input_fn(a.x, a.y, a.input_fn, a.feed_fn, a.batch_size)
        Finish(r) == [r EXCEPT !.trace = inp.trace \o r.trace]
    IN  IF inp.error # NoError
        THEN Outcome(self, inp.error, inp.trace, NoRet)
        ELSE IF a.metrics.type \notin {None, "dict"}
        THEN Outcome(self, ValueError("Metrics argument should be None or dict."),
                     inp.trace, NoRet)
        ELSE Finish(_evaluate_model(self, config, data, m, a.metrics.d, order))

evaluate(self, config, a, data, m, order) ==
    LET inp == _get_input_fn(a.x, a.y, a.input_fn, a.feed_fn, a.batch_size)
        Finish(r) ==
            IF r.error # NoError \/ r.ret.kind = None
            THEN [r EXCEPT !.trace = inp.trace \o r.trace]
            ELSE [r EXCEPT !.trace = inp.trace \o r.trace,
                           !.ret = Ret("results",
                                       [r.ret.val EXCEPT !.eval_results =
                                           Put(@, Name("global_step"),
                                               MetricValue(Whole(MetricOps("global_step", "",
                                                                           "tensor", <<>>)),
                                                           r.ret.val.global_step))])]
    IN  IF inp.error # NoError
        THEN Outcome(self, inp.error, inp.trace, NoRet)
        ELSE IF a.metrics.type \notin {None, "dict"}
        THEN Outcome(self, ValueError("Metrics argument should be None or dict."),
                     inp.trace, NoRet)
        ELSE Finish(_evaluate_model(self, config, data, m, a.metrics.d, order))

(* ------------------------- _infer_model, predict ------------------------ *)
\* Estimator._get_predict_ops
_get_predict_ops(self, features, m) ==
    LET targets == create_placeholders_from_signatures(self.targets_info)
    IN  _call_model_fn(features, targets, ModeKeys.INFER, m)

\* BaseEstimator._get_features_from_input_fn
_get_features_from_input_fn(data) == data.features

(* the engine's inference calls; an input is a sequence of batches, a      *)
(* batch a sequence of examples                                            *)
\* the value of output k for example e
Pred(k, e) == [output |-> k, example |-> e]
\* what one run of the outputs returns for one batch of the input
OutputBatch(keys, batch) ==
    [k \in keys |-> [i \in 1..Len(batch) |-> Pred(k, batch[i])]]

\* graph_actions.infer(checkpoint_path, predictions): runs the outputs once
graph_actions_infer(checkpoint_path, keys, stream) ==
    OutputBatch(keys, Head(stream))

\* graph_actions.run_feeds(predictions, feed_dicts, checkpoint_path): one run
\* of the outputs for every feed the feed function hands out
graph_actions_run_feeds(checkpoint_path, keys, stream) ==
    [i \in 1..Len(stream) |-> OutputBatch(keys, stream[i])]

\* np.concatenate(arrays, axis=0)
RECURSIVE concatenate(_)
concatenate(arrays) ==
    IF arrays = <<>> THEN <<>> ELSE Head(arrays) \o concatenate(Tail(arrays))

\* predictions: the outputs to run, by name
_infer_model_single(checkpoint_path, predictions, feed_fn, return_dict, stream) ==
    LET keys == DOMAIN predictions
        Concatenated(outputs) ==
            [k \in keys |->
               concatenate([i \in 1..Len(outputs) |-> outputs[i][k]])]
        Result(preds) ==
            IF return_dict THEN Dict(preds) ELSE Single(preds["predictions"])
    IN  IF feed_fn = None
        THEN Result(graph_actions_infer(checkpoint_path, keys, stream))
        ELSE Result(Concatenated(graph_actions_run_feeds(checkpoint_path, keys,
                                                         stream)))

\* the generator object _infer_model_as_iterable returns: nothing of its
\* body has run yet.  input is the input the engine reads, feed what is
\* left of it, batch what is left of the output batch being unpacked,
\* yielded the predictions yielded so far.
NoGenerator == [state |-> None, checkpoint_path |-> 0, keys |-> {},
                feed_fn |-> None, return_dict |-> FALSE, input |-> <<>>,
                feed |-> <<>>, batch |-> <<>>, yielded |-> <<>>]
NewGenerator(checkpoint_path, predictions, feed_fn, return_dict, stream) ==
    [state |-> "created", checkpoint_path |-> checkpoint_path,
     keys |-> DOMAIN predictions.items, feed_fn |-> feed_fn,
     return_dict |-> return_dict, input |-> stream, feed |-> stream,
     batch |-> <<>>, yielded |-> <<>>]

OutOfRangeError == [type |-> "OutOfRangeError", msg |-> ""]

\* One next() of the generator: its body runs to the next yield or to its
\* end.  With the output batch unpacked and the input exhausted, the engine
\* raises OutOfRangeError (no feed function) or the feed function raises
\* StopIteration, which ends the feed generator and with it the loop.
_infer_model_as_iterable_next_uncaught(gen) ==
    LET started == IF gen.state = "created"
                   THEN <<"graph_actions.run_feeds_iter">> ELSE <<>>
        Item(e) == IF gen.return_dict
                   THEN Dict([k \in gen.keys |-> Pred(k, e)])
                   ELSE Single(Pred("predictions", e))
        Yield(batch, feed) ==
            [generator |-> [gen EXCEPT !.state = "running", !.batch = Tail(batch),
                                       !.feed = feed,
                                       !.yielded = Append(@, Item(Head(batch)))],
             error |-> NoError, trace |-> started,
             ret |-> Ret("yield", Item(Head(batch)))]
    IN  IF gen.batch # <<>> THEN Yield(gen.batch, gen.feed)
        ELSE IF gen.feed # <<>> THEN Yield(Head(gen.feed), Tail(gen.feed))
        ELSE IF gen.feed_fn = None
        THEN [generator |-> [gen EXCEPT !.state = "finished"],
              error |-> OutOfRangeError,
              trace |-> started \o <<"OutOfRangeError">>, ret |-> NoRet]
        ELSE [generator |-> [gen EXCEPT !.state = "finished"],
              error |-> NoError,
              trace |-> started \o <<"StopIteration">>,
              ret |-> Ret("StopIteration", 0)]

_infer_model_as_iterable_next(gen) ==
    LET started == IF gen.state = "created"
                   THEN <<"graph_actions.run_feeds_iter">> ELSE <<>>
        Item(e) == IF gen.return_dict
                   THEN Dict([k \in gen.keys |-> Pred(k, e)])
                   ELSE Single(Pred("predictions", e))
        Yield(batch, feed) ==
            [generator |-> [gen EXCEPT !.state = "running", !.batch = Tail(batch),
                                       !.feed = feed,
                                       !.yielded = Append(@, Item(Head(batch)))],
             error |-> NoError, trace |-> started,
             ret |-> Ret("yield", Item(Head(batch)))]
    IN  IF gen.batch # <<>> THEN Yield(gen.batch, gen.feed)
        ELSE IF gen.feed # <<>> THEN Yield(Head(gen.feed), Tail(gen.feed))
        ELSE [generator |-> [gen EXCEPT !.state = "finished"],
              error |-> NoError,
              trace |-> started \o <<IF gen.feed_fn = None THEN "OutOfRangeError"
                                     ELSE "StopIteration">>,
              ret |-> Ret("StopIteration", 0)]

\* outputs: the list of requested names, [list |-> FALSE] for None
Outputs(names) == [list |-> TRUE, names |-> names]
NoOutputs == [list |-> FALSE, names |-> {}]

\* the filter of _infer_model: predictions is the dict of outputs by name
_filter_outputs_keeping_all(predictions, outputs) ==
    [error |-> NoError, predictions |-> predictions]
_filter_outputs(predictions, outputs) ==
    IF outputs.names # {}
    THEN IF (DOMAIN predictions) \cap outputs.names = {}
         THEN [error |-> ValueError("Expected to run at least one output."),
               predictions |-> EmptyFn]
         ELSE [error |-> NoError,
               predictions |-> [k \in (DOMAIN predictions) \cap outputs.names |->
                                  predictions[k]]]
    ELSE [error |-> NoError, predictions |-> predictions]

_infer_model_unchecked(self, data, m, feed_fn, outputs, as_iterable, stream) ==
    LET checkpoint_path == latest_checkpoint(self)
        g == self.next_graph + 1
        s1 == [self EXCEPT !.next_graph = g]
        t1 == <<"latest_checkpoint", "Graph", "create_global_step", "input_fn",
                "model_fn">>
        Run(predictions, return_dict) ==
            IF as_iterable
            THEN Outcome(s1, NoError, t1,
                         Ret("generator",
                             NewGenerator(checkpoint_path, Dict(predictions), feed_fn,
                                          return_dict, stream)))
            ELSE Outcome(s1, NoError,
                         t1 \o <<IF feed_fn = None THEN "graph_actions.infer"
                                 ELSE "graph_actions.run_feeds">>,
                         Ret("predictions",
                             [keys |-> DOMAIN predictions, return_dict |-> return_dict,
                              checkpoint_path |-> checkpoint_path,
                              value |-> _infer_model_single(checkpoint_path,
                                                            predictions, feed_fn,
                                                            return_dict, stream)]))
        Filtered(f, return_dict) ==
            IF f.error # NoError THEN Outcome(s1, f.error, t1, NoRet)
            ELSE Run(f.predictions, return_dict)
        Filter(wrapped, return_dict) ==
            Filtered(_filter_outputs(wrapped, outputs), return_dict)
        Wrap(ops) ==
            IF ops.error # NoError
            THEN [Outcome(s1, ops.error, t1, NoRet) EXCEPT !.called = ops.called]
            ELSE [Filter(IF IsDict(ops.predictions) THEN ops.predictions.items
                         ELSE [k \in {"predictions"} |-> TheTensor(ops.predictions)],
                         IsDict(ops.predictions))
                  EXCEPT !.called = ops.called]
    IN  Wrap(_get_predict_ops(self, _get_features_from_input_fn(data), m))

_infer_model(self, data, m, feed_fn, outputs, as_iterable, stream) ==
    LET checkpoint_path == latest_checkpoint(self)
        g == self.next_graph + 1
        s1 == [self EXCEPT !.next_graph = g]
        t1 == <<"latest_checkpoint", "Graph", "create_global_step", "input_fn",
                "model_fn">>
        Run(predictions, return_dict) ==
            IF as_iterable
            THEN Outcome(s1, NoError, t1,
                         Ret("generator",
                             NewGenerator(checkpoint_path, Dict(predictions), feed_fn,
                                          return_dict, stream)))
            ELSE Outcome(s1, NoError,
                         t1 \o <<IF feed_fn = None THEN "graph_actions.infer"
                                 ELSE "graph_actions.run_feeds">>,
                         Ret("predictions",
                             [keys |-> DOMAIN predictions, return_dict |-> return_dict,
                              checkpoint_path |-> checkpoint_path,
                              value |-> _infer_model_single(checkpoint_path,
                                                            predictions, feed_fn,
                                                            return_dict, stream)]))
        Filtered(f, return_dict) ==
            IF f.error # NoError THEN Outcome(s1, f.error, t1, NoRet)
            ELSE Run(f.predictions, return_dict)
        Filter(wrapped, return_dict) ==
            Filtered(_filter_outputs(wrapped, outputs), return_dict)
        Wrap(ops) ==
            IF ops.error # NoError
            THEN [Outcome(s1, ops.error, t1, NoRet) EXCEPT !.called = ops.called]
            ELSE [Filter(IF IsDict(ops.predictions) THEN ops.predictions.items
                         ELSE [k \in {"predictions"} |-> TheTensor(ops.predictions)],
                         IsDict(ops.predictions))
                  EXCEPT !.called = ops.called]
    IN  IF checkpoint_path = 0
        THEN Outcome(self, NotFittedError("Couldn't find trained model."),
                     <<"latest_checkpoint">>, NoRet)
        ELSE Wrap(_get_predict_ops(self, _get_features_from_input_fn(data), m))

\* a: the arguments [x, input_fn, batch_size, outputs, as_iterable]; stream:
\* the batches the input yields when the engine runs
predict_deferring(self, a, data, m, stream) ==
    LET inp == _get_input_fn(a.x, None, a.input_fn, None, a.batch_size)
        Defer(r) ==
            IF a.as_iterable /\ r.error # NoError
            THEN Outcome(self, NoError, r.trace,
                         Ret("generator",
                             NewGenerator(latest_checkpoint(self), NoneT, None,
                                          FALSE, <<>>)))
            ELSE r
        Finish(r) == Defer([r EXCEPT !.trace = inp.trace \o r.trace])
    IN  IF inp.error # NoError
        THEN Defer(Outcome(self, inp.error, inp.trace, NoRet))
        ELSE Finish(_infer_model(self, data, m, inp.feed_fn, a.outputs,
                                 a.as_iterable, stream))
predict(self, a, data, m, stream) ==
    LET inp == _get_input_fn(a.x, None, a.input_fn, None, a.batch_size)
        Finish(r) == [r EXCEPT !.trace = inp.trace \o r.trace]
    IN  IF inp.error # NoError
        THEN Outcome(self, inp.error, inp.trace, NoRet)
        ELSE Finish(_infer_model(self, data, m, inp.feed_fn, a.outputs,
                                 a.as_iterable, stream))

(* ------------------------------- inputs -------------------------------- *)
Range(f) == {f[i] : i \in DOMAIN f}
SeqsUpTo(S, n) == UNION {[1..k -> S] : k \in 0..n}
Perms(S) == {q \in [1..Cardinality(S) -> S] : Range(q) = S}

\* feature and target tensors an input function can return: fB is compatible
\* with fA without having its signature, fC is compatible with neither
fA == Tensor("input", "float32", Shape(<<0 - 1, 2>>))
fB == Tensor("input", "float32", Shape(<<4, 2>>))
fC == Tensor("input", "float32", Shape(<<4, 3>>))
tI == Tensor("input", "int64", Shape(<<0 - 1>>))
tF == Tensor("input", "float32", Shape(<<0 - 1>>))
tY == Dict([k \in {"y"} |-> tI])
tYZ == Dict([k \in {"y", "z"} |-> IF k = "y" THEN tI ELSE tF])

Data(features, targets) == [features |-> features, targets |-> targets]
NoData == Data(NoneT, NoneT)

\* what the user's model_fn returns
pA == Tensor("logits", "float32", Shape(<<0 - 1, 2>>))
pB == Tensor("value", "int64", Shape(<<0 - 1>>))
pAB == Dict([k \in {"a", "b"} |-> IF k = "a" THEN pA ELSE pB])
Predictions == {NoneT, Single(pA), pAB}
Dims == {0 - 1} \cup (0..MaxDim)
LossShapes == {UnknownShape} \cup {Shape(ds) : ds \in SeqsUpTo(Dims, MaxRank)}
Losses == {NoLoss} \cup {Tensor(op, "float32", sh) :
                            op \in {"loss", "value"}, sh \in LossShapes}
TrainOps == {None, "Operation", "Tensor"}
ModelFnOps(predictions, loss, train_op) ==
    [predictions |-> predictions, loss |-> loss, train_op |-> train_op]
NoModel == ModelFnOps(NoneT, NoLoss, None)
GoodLoss == Tensor("loss", "float32", scalar)
GoodModel == ModelFnOps(Single(pA), GoodLoss, "Operation")

\* user metrics
MetricKeys == {Name("acc"), Name("loss"), Name("a"), Name("predictions"),
               TupleName(<<"acc", "a">>), TupleName(<<"acc", "b">>),
               TupleName(<<"a", "b", "c">>)}
Metrics == {Metric("MetricSpec", "spec", "pair"), Metric("fn", "fn", "pair"),
            Metric("fn", "last", "tensor")}
MetricDicts == UNION {[K -> Metrics] :
                         K \in {J \in SUBSET MetricKeys : Cardinality(J) <= MaxMetrics}}
MetricsArg(type, d) == [type |-> type, d |-> d]
NoMetrics == MetricsArg(None, EmptyFn)
AccMetrics ==
    MetricsArg("dict", [k \in {Name("acc")} |-> Metric("MetricSpec", "spec", "pair")])

StepMetrics ==
    MetricsArg("dict",
               [k \in {Name("global_step")} |-> Metric("MetricSpec", "spec", "pair")])

\* run configurations; execution_mode is "absent" for a RunConfig without
\* that attribute
Configs == [execution_mode : {"absent", "all", "train", "evaluate"},
            task : 0..MaxTask,
            training_worker_max_startup_secs : {3},
            training_worker_session_startup_stagger_secs : {2},
            is_chief : {TRUE}]

\* The inputs the engine reads: one to MaxBatches batches of one to MaxBatch
\* examples, the examples numbered in the order of the input.
RECURSIVE Sum(_)
Sum(ns) == IF ns = <<>> THEN 0 ELSE Head(ns) + Sum(Tail(ns))
Batches(sizes) ==
    [i \in 1..Len(sizes) |->
       [j \in 1..sizes[i] |-> Sum(SubSeq(sizes, 1, i - 1)) + j]]
Streams == {Batches(sizes) : sizes \in SeqsUpTo(1..MaxBatch, MaxBatches) \ {<<>>}}
OneExample == Batches(<<1>>)

\* The universe of inputs of a specification: the argument records of the
\* four methods, what input functions return, what model functions return.
PyValues == {None, "array", "Tensor"}
Exhaustive ==
    [fit |-> [x : PyValues, y : PyValues, input_fn : {None, "fn"},
              steps : {None, "1"}, batch_size : {None, "int"},
              monitors : {<<>>}, max_steps : {None, "1"}],
     partial_fit |-> [x : PyValues, y : PyValues, input_fn : {None, "fn"},
                      steps : {None, "1"}, batch_size : {None, "int"},
                      monitors : {<<>>}],
     evaluate |-> [x : PyValues, y : PyValues, input_fn : {None, "fn"},
                   feed_fn : {None, "fn"}, batch_size : {None, "int"},
                   metrics : {NoMetrics, MetricsArg("other", EmptyFn), AccMetrics,
                              StepMetrics}],
     predict |-> [x : PyValues, input_fn : {None, "fn"}, batch_size : {None, "int"},
                  outputs : {NoOutputs, Outputs({}), Outputs({"a"}), Outputs({"c"}),
                             Outputs({"predictions"})},
                  as_iterable : BOOLEAN],
     features |-> {Single(fA), Single(fB), Single(fC)},
     targets |-> {NoneT, Single(tI), tY, tYZ},
     streams |-> {OneExample},
     models |-> {ModelFnOps(pr, l, t) :
                    pr \in Predictions,
                    l \in {NoLoss, GoodLoss, Tensor("value", "float32", Shape(<<1>>)),
                           Tensor("loss", "float32", Shape(<<2>>))},
                    t \in {None, "Operation"}}]

\* The calls of a long-running program: one valid and one invalid argument
\* form per method, three shapes of features and of targets, a model
\* function that works and one that returns nothing.
Lifecycle ==
    [fit |-> [x : {None}, y : {None}, input_fn : {None, "fn"},
              steps : {None}, batch_size : {None}, monitors : {<<>>},
              max_steps : {None}],
     partial_fit |-> [x : {None, "array"}, y : {None}, input_fn : {"fn"},
                      steps : {"1"}, batch_size : {None}, monitors : {<<>>}],
     evaluate |-> [x : {None}, y : {None}, input_fn : {"fn"},
                   feed_fn : {None}, batch_size : {None, "int"},
                   metrics : {NoMetrics}],
     predict |-> [x : {None, "array"}, input_fn : {None}, batch_size : {None},
                  outputs : {NoOutputs}, as_iterable : BOOLEAN],
     features |-> {Single(fA), Single(fB), Single(fC)},
     targets |-> {NoneT, Single(tI), tY},
     streams |-> {OneExample},
     models |-> {GoodModel, NoModel}]

\* The monitors of a fit call: a SessionRunHook (which has no
\* run_on_all_workers attribute: none is read), a monitor for every worker
\* and a monitor for the chief only, in lists of up to MaxMonitors.
SomeMonitors == {Monitor("hook", TRUE, TRUE), Monitor("every", FALSE, TRUE),
                 Monitor("chief", FALSE, FALSE)}
Monitored ==
    [fit |-> [x : {None}, y : {None}, input_fn : {"fn"}, steps : {None},
              batch_size : {None}, monitors : SeqsUpTo(SomeMonitors, MaxMonitors),
              max_steps : {None}],
     partial_fit |-> [x : {None}, y : {None}, input_fn : {"fn"}, steps : {"1"},
                      batch_size : {None},
                      monitors : SeqsUpTo(SomeMonitors, MaxMonitors)],
     features |-> {Single(fA)},
     targets |-> {Single(tI)},
     models |-> {GoodModel, NoModel}]
\* chiefs and other workers
Workers == {[c EXCEPT !.is_chief = b] : c \in Configs, b \in BOOLEAN}

\* The predict calls over every input: both forms of input, with and without
\* a list of outputs, both modes, a model with one prediction, one with a
\* dict of predictions and one that returns nothing.
Streaming ==
    [predict |-> [x : {None, "array"}, input_fn : {None, "fn"}, batch_size : {None},
                  outputs : {NoOutputs, Outputs({"a"})}, as_iterable : BOOLEAN],
     features |-> {Single(fA)},
     targets |-> {NoneT},
     streams |-> Streams,
     models |-> {GoodModel, ModelFnOps(pAB, GoodLoss, "Operation"), NoModel}]

\* what input_fn() returns: with x (and y) given it is the data feeder's
\* input_builder, which makes one placeholder for x and one for y
InputsOf(U, has_input_fn, y) ==
    IF has_input_fn
    THEN {Data(f, t) : f \in U.features, t \in U.targets}
    ELSE {Data(f, IF y = None THEN NoneT ELSE Single(tI)) : f \in U.features}

(* -------------------------------- state -------------------------------- *)
VARIABLES
    estimator,   \* the Estimator object and its model_dir
    config,      \* its RunConfig
    generator,   \* the lazy sequence the latest predict(as_iterable) returned
    last,        \* the latest call: its arguments, inputs and outcome
    mf,          \* one invocation of the model function invoker, or of the
                 \* introspection of a model function's arguments
    mt,          \* one invocation of the metrics assembler
    twin,        \* a second estimator, driven by fit where the first is
                 \* driven by partial_fit
    pandas,      \* one invocation of a pandas extractor
    copies       \* the RunConfig objects the config property has returned

vars == <<estimator, config, generator, last, mf, mt, twin, pandas, copies>>

Call(op, a, data, m, order, pre, out) ==
    [op |-> op, args |-> a, data |-> data, model |-> m, order |-> order,
     pre |-> pre, error |-> out.error, trace |-> out.trace, ret |-> out.ret,
     slept |-> out.slept, hooks |-> out.hooks, bound |-> out.bound,
     called |-> out.called]
NoCall == [op |-> None, args |-> 0, data |-> NoData, model |-> NoModel,
           order |-> <<>>, pre |-> NewEstimator(0), error |-> NoError,
           trace |-> <<>>, ret |-> NoRet, slept |-> 0, hooks |-> <<>>,
           bound |-> <<>>, called |-> NoArguments]

NoInvocation == [done |-> FALSE, mode |-> None]
\* no RunConfig has been read: a reference is 0 for the estimator's own
\* _config and i for the i-th copy made
NoCopies == [objects |-> <<>>, reads |-> <<>>]
NoTwin == [calls |-> 0, self |-> NewEstimator(0), error |-> NoError,
           trace |-> <<>>, ret |-> NoRet]

\* The life of one estimator on the first worker (task 0), which never
\* staggers its start; SpecCall covers the other workers.
Init ==
    /\ \E ckpt \in {0, 1} : estimator = NewEstimator(ckpt)
    /\ config \in {c \in Configs : c.task = 0}
    /\ generator = NoGenerator
    /\ last = NoCall
    /\ mf = NoInvocation
    /\ mt = NoInvocation
    /\ twin = NoTwin
    /\ pandas = NoInvocation
    /\ copies = NoCopies

\* the call has happened: the estimator, the generator and the record of the
\* call are as the outcome says
Return(op, a, data, m, order, out) ==
    /\ out.self.next_graph <= MaxGraphs
    /\ estimator' = out.self
    /\ generator' = IF out.ret.kind = "generator" THEN out.ret.val ELSE generator
    /\ last' = Call(op, a, data, m, order, estimator, out)
    /\ UNCHANGED <<config, mf, mt, twin, pandas, copies>>

Reached(out, step) == step \in Range(out.trace)
SomeData(U) == CHOOSE d \in InputsOf(U, TRUE, None) : TRUE

\* The inputs of a call are enumerated as far as the call reads them: the
\* input function's result when input_fn is called, the model function's
\* result when model_fn is called.
FitOver(U) ==
    \E a \in U.fit :
        LET WithModel(d, o1) ==
                IF ~Reached(o1, "model_fn")
                THEN Return("fit", a, d, NoModel, <<>>, o1)
                ELSE \E m \in U.models :
                        Return("fit", a, d, m, <<>>,
                               fit(estimator, config, a, d, m))
            WithData(o0) ==
                IF ~Reached(o0, "input_fn")
                THEN Return("fit", a, NoData, NoModel, <<>>, o0)
                ELSE \E d \in InputsOf(U, a.input_fn # None, a.y) :
                        WithModel(d, fit(estimator, config, a, d, GoodModel))
        IN  WithData(fit(estimator, config, a, SomeData(U), GoodModel))

PartialFitOver(U) ==
    \E a \in U.partial_fit :
        LET WithModel(d, o1) ==
                IF ~Reached(o1, "model_fn")
                THEN Return("partial_fit", a, d, NoModel, <<>>, o1)
                ELSE \E m \in U.models :
                        Return("partial_fit", a, d, m, <<>>,
                               partial_fit(estimator, config, a, d, m))
            WithData(o0) ==
                IF ~Reached(o0, "input_fn")
                THEN Return("partial_fit", a, NoData, NoModel, <<>>, o0)
                ELSE \E d \in InputsOf(U, a.input_fn # None, a.y) :
                        WithModel(d, partial_fit(estimator, config, a, d, GoodModel))
        IN  WithData(partial_fit(estimator, config, a, SomeData(U), GoodModel))

EvaluateOver(U) ==
    \E a \in U.evaluate :
        LET WithModel(d, o1) ==
                IF ~Reached(o1, "model_fn")
                THEN Return("evaluate", a, d, NoModel, <<>>, o1)
                ELSE \E m \in U.models :
                     \E order \in Perms(DOMAIN a.metrics.d) :
                        Return("evaluate", a, d, m, order,
                               evaluate(estimator, config, a, d, m, order))
            WithData(o0) ==
                IF ~Reached(o0, "input_fn")
                THEN Return("evaluate", a, NoData, NoModel, <<>>, o0)
                ELSE \E d \in InputsOf(U, a.input_fn # None, a.y) :
                        WithModel(d, evaluate(estimator, config, a, d, GoodModel, <<>>))
        IN  WithData(evaluate(estimator, config, a, SomeData(U), GoodModel, <<>>))

PredictOver(U) ==
    \E a \in U.predict :
        LET WithData(o0) ==
                IF ~Reached(o0, "input_fn")
                THEN Return("predict", a, NoData, NoModel, <<>>, o0)
                ELSE \E f \in U.features :
                     \E m \in U.models :
                     \E stream \in U.streams :
                        Return("predict", a, Data(f, NoneT), m, <<>>,
                               predict(estimator, a, Data(f, NoneT), m, stream))
        IN  WithData(predict(estimator, a, SomeData(U), GoodModel, OneExample))

(* ------------------- the lifecycle of one estimator --------------------- *)
Fit == FitOver(Lifecycle)
PartialFit == PartialFitOver(Lifecycle)
Evaluate == EvaluateOver(Lifecycle)
Predict == PredictOver(Lifecycle)

\* One next() of the consumer of the lazy sequence: the first one starts
\* the engine's run_feeds_iter on the checkpoint found by predict; each
\* yields one prediction or finds the input exhausted.  The record of the
\* call keeps the arguments of the predict call it follows.
_infer_model_as_iterable ==
    /\ generator.state \in {"created", "running"}
    /\ LET out == _infer_model_as_iterable_next(generator)
       IN  /\ generator' = out.generator
           /\ last' = [(IF last.op \in {"predict", "next"} THEN last ELSE NoCall)
                          EXCEPT !.op = "next", !.error = out.error,
                                 !.trace = out.trace, !.ret = out.ret]
    /\ UNCHANGED <<estimator, config, mf, mt, twin, pandas, copies>>

Next == Fit \/ PartialFit \/ Evaluate \/ Predict \/ _infer_model_as_iterable

Spec == Init /\ [][Next]_vars

(* ------------- one call, with every form of its arguments --------------- *)
\* The estimator a call finds: new, or left by one earlier fit or evaluate
\* of this process under the same configuration.
FnArgs(U) == CHOOSE a \in U : a.x = None /\ a.y = None /\ a.input_fn = "fn"
                                 /\ a.batch_size = None
Earlier(cfg) ==
    LET new == {NewEstimator(c) : c \in {0, 1}}
        U == Exhaustive
    IN  new
        \cup {fit(e, cfg, [FnArgs(U.fit) EXCEPT !.steps = None], d, GoodModel).self :
                 e \in new, d \in InputsOf(U, TRUE, None)}
        \cup {evaluate(e, cfg, [FnArgs(U.evaluate) EXCEPT !.metrics = NoMetrics,
                                                          !.feed_fn = None],
                       d, GoodModel, <<>>).self :
                 e \in new, d \in InputsOf(U, TRUE, None)}

InitCall ==
    /\ config \in Configs
    /\ estimator \in Earlier(config)
    /\ generator = NoGenerator
    /\ last = NoCall
    /\ mf = NoInvocation
    /\ mt = NoInvocation
    /\ twin = NoTwin
    /\ pandas = NoInvocation
    /\ copies = NoCopies

CallFit == last.op = None /\ FitOver(Exhaustive)
CallPartialFit == last.op = None /\ PartialFitOver(Exhaustive)
CallEvaluate == last.op = None /\ EvaluateOver(Exhaustive)
CallPredict == last.op = None /\ PredictOver(Exhaustive)

NextCall == CallFit \/ CallPartialFit \/ CallEvaluate \/ CallPredict

SpecCall == InitCall /\ [][NextCall]_vars

(* ------------- predict over every input, and its generator ------------- *)
InitPredict ==
    /\ config \in Configs
    /\ estimator \in Earlier(config)
    /\ generator = NoGenerator
    /\ last = NoCall
    /\ mf = NoInvocation
    /\ mt = NoInvocation
    /\ twin = NoTwin
    /\ pandas = NoInvocation
    /\ copies = NoCopies

PredictStream == last.op = None /\ PredictOver(Streaming)

NextPredict == PredictStream \/ _infer_model_as_iterable

SpecPredict == InitPredict /\ [][NextPredict]_vars

(* -------- consecutive partial_fit calls next to the same fit calls ------ *)
InitTwin ==
    /\ config \in Configs
    /\ \E ckpt \in {0, 1} : estimator = NewEstimator(ckpt)
    /\ generator = NoGenerator
    /\ last = NoCall
    /\ mf = NoInvocation
    /\ mt = NoInvocation
    /\ twin = [NoTwin EXCEPT !.self = estimator]
    /\ pandas = NoInvocation
    /\ copies = NoCopies

\* partial_fit(steps=1) on the estimator and fit(steps=1) with max_steps unset
\* on its twin, with the same arguments and the same inputs
PartialFitAndFit ==
    /\ twin.calls < MaxCalls
    /\ \E a \in Lifecycle.partial_fit :
       \E d \in InputsOf(Lifecycle, a.input_fn # None, a.y) :
       \E m \in Lifecycle.models :
          LET WithBoth(p, f) ==
                  /\ estimator' = p.self
                  /\ last' = Call("partial_fit", a, d, m, <<>>, estimator, p)
                  /\ twin' = [calls |-> twin.calls + 1, self |-> f.self,
                              error |-> f.error, trace |-> f.trace, ret |-> f.ret]
          IN  /\ a.steps = "1"
              /\ WithBoth(partial_fit(estimator, config, a, d, m),
                          fit(twin.self, config,
                              [x |-> a.x, y |-> a.y, input_fn |-> a.input_fn,
                               steps |-> a.steps, batch_size |-> a.batch_size,
                               monitors |-> a.monitors, max_steps |-> None],
                              d, m))
    /\ UNCHANGED <<config, generator, mf, mt, pandas, copies>>

SpecTwin == InitTwin /\ [][PartialFitAndFit]_vars

(* ------------------- fit with monitors, on every worker ------------------ *)
InitMonitors ==
    /\ config \in Workers
    /\ estimator = NewEstimator(0)
    /\ generator = NoGenerator
    /\ last = NoCall
    /\ mf = NoInvocation
    /\ mt = NoInvocation
    /\ twin = NoTwin
    /\ pandas = NoInvocation
    /\ copies = NoCopies

FitMonitored == last.op = None /\ FitOver(Monitored)
PartialFitMonitored == last.op = None /\ PartialFitOver(Monitored)

NextMonitors == FitMonitored \/ PartialFitMonitored

SpecMonitors == InitMonitors /\ [][NextMonitors]_vars

(* -------------- the model function invoker as a function ---------------- *)
AllModelOuts ==
    {ModelFnOps(pr, l, t) : pr \in Predictions, l \in Losses, t \in TrainOps}

InitModelFn ==
    /\ estimator = NewEstimator(0)
    /\ config \in {c \in Configs : c.execution_mode = "absent" /\ c.task = 0}
    /\ generator = NoGenerator
    /\ last = NoCall
    /\ mt = NoInvocation
    /\ twin = NoTwin
    /\ pandas = NoInvocation
    /\ copies = NoCopies
    /\ \E mode \in {ModeKeys.TRAIN, ModeKeys.EVAL, ModeKeys.INFER}, m \in AllModelOuts :
          mf = [done |-> FALSE, mode |-> mode, m |-> m,
                out |-> _call_model_fn(NoneT, NoneT, ModeKeys.EVAL, NoModel)]

CallModelFn ==
    /\ ~mf.done
    /\ mf' = [mf EXCEPT !.done = TRUE,
                        !.out = _call_model_fn(Single(fA), Single(tI), mf.mode, mf.m)]
    /\ UNCHANGED <<estimator, config, generator, last, mt, twin, pandas, copies>>

SpecModelFn == InitModelFn /\ [][CallModelFn]_vars

(* ---------------- the metrics assembler as a function ------------------- *)
tAZ == Dict([k \in {"a", "z"} |-> IF k = "a" THEN tI ELSE tF])
MetricTargets == {NoneT, Single(tI), tY, tYZ, tAZ}

InitMetrics ==
    /\ estimator = NewEstimator(0)
    /\ config \in {c \in Configs : c.execution_mode = "absent" /\ c.task = 0}
    /\ generator = NoGenerator
    /\ last = NoCall
    /\ mf = NoInvocation
    /\ twin = NoTwin
    /\ pandas = NoInvocation
    /\ copies = NoCopies
    /\ \E targets \in MetricTargets, pr \in Predictions, d \in MetricDicts :
       \E order \in Perms(DOMAIN d) :
          mt = [done |-> FALSE, targets |-> targets,
                m |-> ModelFnOps(pr, GoodLoss, None),
                metrics |-> d, order |-> order,
                out |-> [error |-> NoError, result |-> EmptyFn,
                         called |-> NoArguments]]

GetEvalOps ==
    /\ ~mt.done
    /\ mt' = [mt EXCEPT !.done = TRUE,
                        !.out = _get_eval_ops(Single(fA), mt.targets, mt.metrics,
                                              mt.order, mt.m)]
    /\ UNCHANGED <<estimator, config, generator, last, mf, twin, pandas, copies>>

SpecMetrics == InitMetrics /\ [][GetEvalOps]_vars

(* ============================== properties ============================== *)
IsCall(ops) == last.op \in ops
AllOps == {"fit", "partial_fit", "evaluate", "predict"}
EngineSteps == {"_monitored_train", "graph_actions.evaluate", "graph_actions.infer",
                "graph_actions.run_feeds", "graph_actions.run_feeds_iter"}
GraphSteps == {"Graph", "create_global_step", "input_fn", "_check_inputs", "model_fn"}
ArgY == IF last.op = "predict" THEN None ELSE last.args.y
ArgFeedFn == IF last.op = "evaluate" THEN last.args.feed_fn ELSE None
\* the arguments of the latest call name exactly one form of input and, for
\* fit, one step limit, and the metrics are None or a dict
ValidArguments ==
    /\ \/ /\ last.args.input_fn = None
          /\ last.args.x = "array"
          /\ ArgY \in {None, "array"}
          /\ ArgFeedFn = None
       \/ /\ last.args.input_fn # None
          /\ last.args.x = None
          /\ ArgY = None
          /\ last.args.batch_size = None
    /\ last.op = "fit" => (last.args.steps = None \/ last.args.max_steps = None)
    /\ last.op = "evaluate" => last.args.metrics.type \in {None, "dict"}
EvaluatesHere == config.execution_mode \in {"absent", "all", "evaluate", "eval_evalset"}

\* C1 (as stated): evaluate and predict raise NotFittedError whenever
\* model_dir holds no checkpoint, for every otherwise valid call and every
\* run configuration.
C1_NotFittedAlways ==
    (IsCall({"evaluate", "predict"}) /\ ValidArguments /\ last.pre.checkpoint = 0)
        => last.error.type = "NotFittedError"

\* C1 (amended): with no checkpoint in model_dir, a valid predict raises
\* NotFittedError under every run configuration, and a valid evaluate raises
\* it unless the configuration has an execution mode other than all,
\* evaluate and eval_evalset; under such a mode evaluate returns None without
\* raising and without looking for a checkpoint.
C1_NotFittedUnlessNotEvaluating ==
    (IsCall({"evaluate", "predict"}) /\ ValidArguments /\ last.pre.checkpoint = 0)
        => IF last.op = "evaluate" /\ ~EvaluatesHere
           THEN /\ last.error = NoError
                /\ last.ret.kind = None
                /\ "latest_checkpoint" \notin Range(last.trace)
           ELSE last.error.type = "NotFittedError"

C1_Witness ==
    /\ IsCall({"evaluate"}) /\ ValidArguments /\ last.pre.checkpoint = 0
    /\ EvaluatesHere
    /\ last.error.type = "NotFittedError"

\* C2: an evaluate or predict call builds its graph, calls the input
\* function, calls the model function and starts the engine only after it
\* has looked up the latest checkpoint and found one; the lazy sequence of
\* predict exists, and its engine run starts, only on a checkpoint that the
\* predict call found.
C2_CheckpointLookupFirst ==
    /\ IsCall({"evaluate", "predict"}) =>
          \A i \in DOMAIN last.trace :
              last.trace[i] \in GraphSteps \cup EngineSteps
                  => /\ last.pre.checkpoint # 0
                     /\ \E j \in 1..(i - 1) : last.trace[j] = "latest_checkpoint"
    /\ generator.state # None => generator.checkpoint_path # 0
    /\ (last.op = "next" /\ Range(last.trace) \cap EngineSteps # {})
          => generator.checkpoint_path # 0

C2_Witness ==
    /\ IsCall({"evaluate"})
    /\ "graph_actions.evaluate" \in Range(last.trace)
    /\ generator.state = "running"

\* C3: once the feature signature, respectively the target signature, is
\* recorded, no step changes it.
C3_SignatureFrozen ==
    [][/\ ~IsNone(estimator.features_info)
            => estimator'.features_info = estimator.features_info
       /\ ~IsNone(estimator.targets_info)
            => estimator'.targets_info = estimator.targets_info]_vars

\* a call that passed the signature check with tensors whose signature differs
\* from the recorded one
C3_Witness ==
    /\ IsCall(AllOps \ {"predict"})
    /\ last.error = NoError
    /\ ~IsNone(last.pre.features_info)
    /\ ~IsNone(last.pre.targets_info)
    /\ "_check_inputs" \in Range(last.trace)
    /\ create_signatures(last.data.features) # last.pre.features_info

\* C4 (as stated): once a signature is recorded, a fit, partial_fit, evaluate
\* or predict call whose input function returns features or targets that are
\* incompatible with it raises ValueError.
Incompatible ==
    \/ /\ ~IsNone(last.pre.features_info)
       /\ ~tensors_compatible(last.data.features, last.pre.features_info)
    \/ /\ ~IsNone(last.pre.targets_info)
       /\ ~IsNone(last.data.targets)
       /\ ~tensors_compatible(last.data.targets, last.pre.targets_info)
C4_IncompatibleRaises ==
    (IsCall(AllOps) /\ "input_fn" \in Range(last.trace) /\ Incompatible)
        => last.error.type = "ValueError"

\* C5: each of the four methods raises ValueError when input_fn comes with x
\* or y, when input_fn comes with batch_size, and when neither x nor input_fn
\* is given, and has then built no graph and not invoked the engine.
C5_OneInputForm ==
    (/\ IsCall(AllOps)
     /\ \/ last.args.input_fn # None /\ (last.args.x # None \/ ArgY # None)
        \/ last.args.input_fn # None /\ last.args.batch_size # None
        \/ last.args.input_fn = None /\ last.args.x = None)
        => /\ last.error.type = "ValueError"
           /\ Range(last.trace) \cap (GraphSteps \cup EngineSteps) = {}

C5_Witness ==
    /\ IsCall({"predict"})
    /\ last.args.input_fn # None /\ last.args.batch_size # None /\ last.args.x = None
    /\ last.error.type = "ValueError"

\* C6: a call whose model function omits train_op in TRAIN mode, loss in
\* TRAIN or EVAL mode, or predictions in INFER mode raises ValueError, and
\* the engine is never started (nor a lazy sequence made) by a call whose
\* model function omitted an output its mode requires.
ModeOf(op) == IF op \in {"fit", "partial_fit"} THEN ModeKeys.TRAIN
              ELSE IF op = "evaluate" THEN ModeKeys.EVAL ELSE ModeKeys.INFER
MissingRequired(mode, m) ==
    \/ mode = ModeKeys.TRAIN /\ m.train_op = None
    \/ mode \in {ModeKeys.TRAIN, ModeKeys.EVAL} /\ LossIsNone(m.loss)
    \/ mode = ModeKeys.INFER /\ IsNone(m.predictions)
C6_RequiredOutputs ==
    (/\ IsCall(AllOps)
     /\ "model_fn" \in Range(last.trace)
     /\ MissingRequired(ModeOf(last.op), last.model))
        => /\ last.error.type = "ValueError"
           /\ Range(last.trace) \cap EngineSteps = {}
           /\ last.ret.kind = None

C6_Witness ==
    /\ IsCall({"predict"})
    /\ "model_fn" \in Range(last.trace)
    /\ IsNone(last.model.predictions)
    /\ ~LossIsNone(last.model.loss)
    /\ last.error.type = "ValueError"

\* C7: in every mode a loss of more than one element makes the model
\* function invoker raise ValueError, the loss is never returned reduced or
\* reshaped, and the error is the one about the loss not being scalar
\* unless train_op is missing in TRAIN mode, which is reported first.
MultiElement(l) == ~LossIsNone(l) /\ num_elements(l.shape) > 1
C7_MultiElementLossFatal ==
    (mf.done /\ MultiElement(mf.m.loss))
        => /\ mf.out.error.type = "ValueError"
           /\ LossIsNone(mf.out.loss)
           /\ ~(mf.mode = ModeKeys.TRAIN /\ mf.m.train_op = None)
                 => mf.out.error.msg = "Loss must be scalar."

C7_Witness ==
    /\ mf.done /\ MultiElement(mf.m.loss)
    /\ mf.mode = ModeKeys.INFER
    /\ mf.out.error.msg = "Loss must be scalar."

\* C8: a loss of exactly one element is never rejected for its shape; it is
\* reshaped to rank 0 when its rank is above 0 and returned without reshape
\* when its rank is 0; a loss of more than one element is rejected.
C8_SingleElementLossReshaped ==
    (mf.done /\ ~LossIsNone(mf.m.loss) /\ mf.m.loss.shape.known) =>
        LET n == num_elements(mf.m.loss.shape)
            rank == Len(mf.m.loss.shape.dims)
        IN  /\ n = 1 => mf.out.error.msg # "Loss must be scalar."
            /\ (n = 1 /\ mf.out.error = NoError /\ rank > 0)
                  => mf.out.loss = reshape(convert_to_tensor(mf.m.loss))
            /\ (mf.out.error = NoError /\ rank = 0)
                  => mf.out.loss = convert_to_tensor(mf.m.loss)
            /\ n > 1 => mf.out.error # NoError

C8_Witness ==
    /\ mf.done
    /\ mf.m.loss.shape = Shape(<<1, 1>>)
    /\ mf.out.error = NoError
    /\ mf.out.loss.op = "Reshape"
    /\ mf.out.loss.shape = scalar

\* the name a user metric is stored under: its key, or the first element of
\* the key when a bare metric function is keyed by a (name, key) tuple
ResultName(k) ==
    IF mt.metrics[k].kind # "MetricSpec" /\ k.tuple THEN Name(k.parts[1]) ELSE k
UserNames == {ResultName(k) : k \in DOMAIN mt.metrics}
EvalPredictions == mt.m.predictions
AutoNames ==
    {Name("loss")} \cup
    (IF IsNone(EvalPredictions) THEN {}
     ELSE IF IsDict(EvalPredictions)
     THEN {Name(k) : k \in DOMAIN EvalPredictions.items}
     ELSE {Name("predictions")})
AutoValue(n) ==
    IF n = Name("loss") THEN convert_to_tensor(mt.m.loss)
    ELSE IF IsDict(EvalPredictions)
    THEN convert_to_tensor(EvalPredictions.items[n.parts[1]])
    ELSE convert_to_tensor(TheTensor(EvalPredictions))
\* the entry was made by the user metric with key k
MadeBy(ops, k) ==
    /\ ops.op # "streaming_mean"
    /\ ops.id = mt.metrics[k].id
    /\ (mt.metrics[k].kind # "MetricSpec" /\ k.tuple)
          => ops.args[1] = Single(convert_to_tensor(EvalPredictions.items[k.parts[2]]))
Position(k) == CHOOSE i \in DOMAIN mt.order : mt.order[i] = k
\* of the user metrics stored under name n, the one the dict iterates last
LastKey(n) ==
    CHOOSE k \in DOMAIN mt.metrics :
        /\ ResultName(k) = n
        /\ \A j \in DOMAIN mt.metrics : ResultName(j) = n => Position(j) <= Position(k)
Assembled == mt.done /\ mt.out.error = NoError

\* C9 (as stated): the assembled mapping holds every user metric under its
\* name, a streaming mean under 'loss' and under each prediction name unless
\* the name is taken, and nothing else, and no entry is overwritten.
C9_NoEntryOverwritten ==
    Assembled =>
        /\ DOMAIN mt.out.result = UserNames \cup AutoNames
        /\ \A k \in DOMAIN mt.metrics : MadeBy(mt.out.result[ResultName(k)], k)
        /\ \A n \in AutoNames \ UserNames :
              mt.out.result[n] = streaming_mean(AutoValue(n))

\* C9 (amended): the assembled mapping holds one entry per name of a user
\* metric, a streaming mean under 'loss' and under each prediction name
\* unless the name is taken by a user metric, and nothing else; an auto-added
\* mean never replaces an entry; of several user metrics stored under one
\* name (a (name, key) tuple of a bare metric function is stored under name)
\* the entry is the one the metrics dict iterates last, so every user metric
\* is present when these names are pairwise distinct.
C9_AutoAddedNeverOverwrite ==
    Assembled =>
        /\ DOMAIN mt.out.result = UserNames \cup AutoNames
        /\ \A n \in UserNames : MadeBy(mt.out.result[n], LastKey(n))
        /\ \A n \in AutoNames \ UserNames :
              mt.out.result[n] = streaming_mean(AutoValue(n))

C9_Witness ==
    /\ Assembled
    /\ Name("loss") \in DOMAIN mt.metrics
    /\ Name("a") \in DOMAIN mt.metrics
    /\ IsDict(EvalPredictions)
    /\ mt.out.result[Name("a")].op = "create_metric_ops"
    /\ mt.out.result[Name("b")].op = "streaming_mean"

\* the targets after the unwrapping of a single-entry mapping
Unwrapped ==
    IF IsDict(mt.targets) /\ Cardinality(DOMAIN mt.targets.items) = 1
    THEN Single(mt.targets.items[CHOOSE k \in DOMAIN mt.targets.items : TRUE])
    ELSE mt.targets
UserEntries == {n \in DOMAIN mt.out.result : mt.out.result[n].op # "streaming_mean"}

\* C10 (as stated): every metric receives the bare value of a single-entry
\* targets mapping, and any other targets value unchanged.
C10_TargetsPassedWhole ==
    Assembled => \A n \in UserEntries : mt.out.result[n].args[2] = Unwrapped

\* C10 (amended): a single-entry targets mapping is replaced by its bare
\* value before any metric is made; MetricSpec metrics and bare metric
\* functions keyed by a name receive that value, or any other targets value,
\* unchanged; a bare metric function keyed by a (name, key) tuple receives
\* targets[key] when targets is a mapping of two or more entries that has
\* key, and the targets unchanged otherwise.
C10_TargetsUnwrappedOrSelected ==
    Assembled =>
        \A n \in UserEntries :
            LET k == LastKey(n)
                selects == /\ mt.metrics[k].kind # "MetricSpec"
                           /\ k.tuple
                           /\ IsDict(Unwrapped)
                           /\ k.parts[2] \in DOMAIN Unwrapped.items
            IN  mt.out.result[n].args[2] =
                    IF selects THEN Single(Unwrapped.items[k.parts[2]]) ELSE Unwrapped

C10_Witness ==
    /\ Assembled
    /\ mt.targets = tY
    /\ \E n \in UserEntries :
          /\ mt.out.result[n].op = "metric_fn"
          /\ mt.out.result[n].args[2] = Single(tI)

\* the item the generator yields for example e
ItemOf(gen, e) == IF gen.return_dict
                  THEN Dict([k \in gen.keys |-> Pred(k, e)])
                  ELSE Single(Pred("predictions", e))
\* the examples of an input in its order
Examples(stream) == concatenate(stream)

\* C11: a next() of the lazy prediction sequence never raises; once the input
\* is exhausted, whether the engine signalled it (OutOfRangeError) or the
\* feed function did (StopIteration), the prediction of every example has
\* been yielded, in order, and the iteration has simply ended.
C11_ExhaustedEndsQuietly ==
    last.op = "next" =>
       /\ last.error = NoError
       /\ generator.state = "finished" =>
             /\ last.ret.kind = "StopIteration"
             /\ Range(last.trace) \cap {"OutOfRangeError", "StopIteration"} =
                   {IF generator.feed_fn = None THEN "OutOfRangeError"
                    ELSE "StopIteration"}
             /\ generator.yielded =
                   [i \in 1..Len(Examples(generator.input)) |->
                      ItemOf(generator, Examples(generator.input)[i])]

\* the engine has signalled the end of an input of two batches, after three
\* predictions were yielded
C11_Witness ==
    /\ last.op = "next"
    /\ generator.state = "finished"
    /\ generator.feed_fn = None
    /\ "OutOfRangeError" \in Range(last.trace)
    /\ Len(generator.input) = 2
    /\ Len(generator.yielded) = 3

\* C12: after each of the consecutive partial_fit(steps=1) calls, the steps
\* the call took, the error it raised, the value it returned and the
\* estimator it left are those of fit(steps=1, max_steps unset) called in its
\* place on the same inputs.
C12_PartialFitAsFit ==
    twin.calls > 0 =>
       /\ last.op = "partial_fit"
       /\ twin.self = estimator
       /\ twin.trace = last.trace
       /\ twin.error = last.error
       /\ twin.ret = last.ret

\* two consecutive partial_fit calls both ran the training loop
C12_Witness ==
    /\ twin.calls = 2
    /\ last.error = NoError
    /\ "_monitored_train" \in Range(last.trace)
    /\ last.pre.graph # 0
    /\ estimator.graph = 2

\* C13: fit with both steps and max_steps raises ValueError before it
\* resolves its inputs, sleeps, builds a graph, records a signature or
\* invokes the engine.
C13_BothStepLimitsRejectedFirst ==
    (IsCall({"fit"}) /\ last.args.steps # None /\ last.args.max_steps # None)
        => /\ last.error = ValueError("Can not provide both steps and max_steps.")
           /\ last.trace = <<>>
           /\ last.slept = 0
           /\ last.called = NoArguments
           /\ estimator = last.pre

\* both limits given together with x, which alone would have set up a data
\* feeder
C13_Witness ==
    /\ IsCall({"fit"})
    /\ last.args.steps # None /\ last.args.max_steps # None
    /\ last.args.x = "array" /\ last.args.input_fn = None
    /\ last.error.type = "ValueError"

\* C14: under an execution mode that is defined and is neither all nor
\* train, a fit with valid arguments does not sleep, builds no graph, calls
\* neither the input function nor the model function, leaves the estimator
\* with its signatures as it was, does not invoke the training loop, and
\* returns the estimator.
C14_NotTrainingIsNoOp ==
    (IsCall({"fit"}) /\ ValidArguments
        /\ config.execution_mode \notin {"absent", "all", "train"})
        => /\ last.error = NoError
           /\ last.ret.kind = "self"
           /\ last.slept = 0
           /\ Range(last.trace) \cap ({"sleep"} \cup GraphSteps \cup EngineSteps) = {}
           /\ last.called = NoArguments
           /\ last.hooks = <<>>
           /\ estimator = last.pre

\* a worker with a task index that would have slept, and an estimator with
\* recorded signatures
C14_Witness ==
    /\ IsCall({"fit"}) /\ ValidArguments
    /\ config.execution_mode = "evaluate"
    /\ config.task > 0
    /\ ~IsNone(estimator.features_info)
    /\ last.ret.kind = "self"

\* the call began training: it got as far as constructing the graph
BeganTraining == IsCall({"fit", "partial_fit"}) /\ "Graph" \in Range(last.trace)
Stagger == Min(config.training_worker_max_startup_secs,
               config.task * config.training_worker_session_startup_stagger_secs)
StepAt(step) == CHOOSE i \in DOMAIN last.trace : last.trace[i] = step
\* the sleep is no longer than the maximum, none for task 0, no shorter for
\* a larger task index, and over before anything else of the training
SleepBoundedOrderedFirst ==
    /\ last.slept <= config.training_worker_max_startup_secs
    /\ config.task = 0 => last.slept = 0
    /\ \A c \in Configs :
          (c = [config EXCEPT !.task = c.task] /\ c.task >= config.task)
             => _train_model(last.pre, c, last.data, last.model,
                             last.args.monitors).slept >= last.slept
    /\ last.slept > 0 <=> "sleep" \in Range(last.trace)
    /\ last.slept > 0 =>
          \A i \in DOMAIN last.trace :
              last.trace[i] \in GraphSteps \cup EngineSteps => StepAt("sleep") < i

\* C15 (as stated): before beginning training every worker sleeps
\* min(training_worker_max_startup_secs, task x stagger secs) seconds.
C15_EveryWorkerSleeps ==
    BeganTraining => (last.slept = Stagger /\ SleepBoundedOrderedFirst)

\* C15 (amended): a worker whose run configuration defines an execution mode
\* sleeps min(max startup secs, task x stagger secs) seconds before it
\* begins training, a worker whose run configuration defines none does not
\* sleep; the sleep never exceeds the maximum, is zero for task 0, is
\* non-decreasing in the task index and is over before the graph is built,
\* the input function called or the training loop invoked.
C15_StaggerWhenModeDefined ==
    BeganTraining =>
       /\ last.slept = IF config.execution_mode # "absent" THEN Stagger ELSE 0
       /\ SleepBoundedOrderedFirst

\* a worker whose stagger is cut to the maximum
C15_Witness ==
    /\ BeganTraining
    /\ config.task * config.training_worker_session_startup_stagger_secs
          > config.training_worker_max_startup_secs
    /\ last.slept = config.training_worker_max_startup_secs
    /\ "_monitored_train" \in Range(last.trace)

\* the call ran the training loop
Trained == IsCall({"fit", "partial_fit"}) /\ "_monitored_train" \in Range(last.trace)
ChiefOnly(mon) == ~mon.hook /\ ~mon.run_on_all_workers
Kept(mon) == mon.hook \/ config.is_chief \/ mon.run_on_all_workers
\* the monitors the training loop got, those driven by the adapter included
Handed ==
    concatenate([i \in 1..Len(last.hooks) |->
                   IF last.hooks[i].id = "RunHookAdapterForMonitors"
                   THEN last.hooks[i].monitors ELSE <<last.hooks[i]>>])
Count(seq, x) == Cardinality({i \in DOMAIN seq : seq[i] = x})

\* C16: on a worker that is not the chief no chief-only monitor is bound to
\* the estimator or handed to the training loop; on the chief every supplied
\* monitor is handed over; and a monitor that is kept reaches the training
\* loop once for each time it was supplied, as a hook or through the adapter.
C16_ChiefOnlyMonitorsPruned ==
    Trained =>
       /\ ~config.is_chief =>
             \A mon \in Range(Handed) \cup Range(last.bound) : ~ChiefOnly(mon)
       /\ config.is_chief =>
             \A mon \in Range(last.args.monitors) : mon \in Range(Handed)
       /\ \A mon \in Range(last.args.monitors) :
             Kept(mon) => Count(Handed, mon) = Count(last.args.monitors, mon)
       /\ \A mon \in Range(last.bound) : ~mon.hook /\ mon \in Range(Handed)
       /\ Count(last.hooks, RunHookAdapterForMonitors(last.bound)) =
             IF last.bound = <<>> THEN 0 ELSE 1

\* a worker that is not the chief was given a chief-only monitor and a
\* monitor for every worker, and handed over the latter
C16_Witness ==
    /\ Trained
    /\ ~config.is_chief
    /\ \E i \in DOMAIN last.args.monitors : ChiefOnly(last.args.monitors[i])
    /\ Len(last.args.monitors) = 2
    /\ Len(Handed) = 1
    /\ last.bound # <<>>

\* what the evaluation loop reported for the metrics of the latest evaluate
LoopReported ==
    graph_actions_evaluate(last.pre, last.ret.val.eval_dict, last.ret.val.update_op)
StepName == Name("global_step")
StepEntry(step) ==
    MetricValue(Whole(MetricOps("global_step", "", "tensor", <<>>)), step)
Succeeded(ops) == IsCall(ops) /\ last.error = NoError /\ ValidArguments

\* C17 (as stated): a successful evaluate returns a mapping with the value
\* the evaluation loop reported for every evaluated metric, plus the global
\* step the loop returned under 'global_step'.
C17_EveryMetricReported ==
    Succeeded({"evaluate"}) =>
       /\ last.ret.kind = "results"
       /\ StepName \in DOMAIN last.ret.val.eval_results
       /\ last.ret.val.eval_results[StepName] =
             StepEntry(LoopReported.current_global_step)
       /\ \A n \in DOMAIN last.ret.val.eval_dict :
             /\ n \in DOMAIN last.ret.val.eval_results
             /\ last.ret.val.eval_results[n] = LoopReported.eval_results[n]

\* C17 (amended): a successful evaluate returns None exactly when the run
\* configuration defines an execution mode that is not an evaluating one;
\* otherwise it returns a mapping with the value the evaluation loop reported
\* for every evaluated metric not named 'global_step', plus, under
\* 'global_step', the global step the loop returned for the restored
\* checkpoint, which replaces the value of a metric of that name.
C17_MetricsAndStepReported ==
    Succeeded({"evaluate"}) =>
       /\ last.ret.kind = (IF EvaluatesHere THEN "results" ELSE None)
       /\ last.ret.kind = "results" =>
             /\ DOMAIN last.ret.val.eval_results =
                   (DOMAIN last.ret.val.eval_dict) \cup {StepName}
             /\ last.ret.val.eval_results[StepName] =
                   StepEntry(LoopReported.current_global_step)
             /\ LoopReported.current_global_step = last.pre.checkpoint
             /\ \A n \in (DOMAIN last.ret.val.eval_dict) \ {StepName} :
                   last.ret.val.eval_results[n] = LoopReported.eval_results[n]

\* an evaluate with a user metric returned that metric, the loss and the
\* global step
C17_Witness ==
    /\ Succeeded({"evaluate"})
    /\ last.ret.kind = "results"
    /\ {Name("acc"), Name("loss"), StepName} \subseteq DOMAIN last.ret.val.eval_results
    /\ last.ret.val.eval_results[StepName] = StepEntry(1)

\* the model function's outputs by name, as predict sees them
OutputNames == IF IsDict(last.model.predictions)
               THEN DOMAIN last.model.predictions.items ELSE {"predictions"}
\* predict got as far as a model function call that returned valid outputs
Predicted ==
    /\ IsCall({"predict"})
    /\ "model_fn" \in Range(last.trace)
    /\ _call_model_fn(last.called.features, last.called.targets, ModeKeys.INFER,
                      last.model).error = NoError
RunsOnly(names) ==
    IF names = {}
    THEN last.error.type = "ValueError"
    ELSE /\ last.error = NoError
         /\ last.ret.val.keys = names
         /\ last.ret.val.return_dict = IsDict(last.model.predictions)
         /\ last.ret.kind = "predictions" =>
               /\ IsDict(last.ret.val.value) = IsDict(last.model.predictions)
               /\ IsDict(last.ret.val.value) =>
                     DOMAIN last.ret.val.value.items = names

\* C18 (as stated): given a list of output names, predict runs and returns
\* only the outputs named in the list and raises ValueError when none is
\* left; a single prediction counts as the output 'predictions'; the result
\* is a mapping exactly when the model returned a mapping.
C18_OnlyListedOutputs ==
    (Predicted /\ last.args.outputs.list)
        => RunsOnly(OutputNames \cap last.args.outputs.names)

\* C18 (amended): given a list of output names that is not empty, predict
\* runs and returns only the outputs named in the list and raises ValueError
\* when none is left; given None or an empty list it runs and returns every
\* output; a single prediction counts as the output 'predictions'; the
\* result is a mapping exactly when the model returned a mapping.
C18_OnlyListedOutputsOfNonEmptyList ==
    Predicted =>
        IF last.args.outputs.list /\ last.args.outputs.names # {}
        THEN RunsOnly(OutputNames \cap last.args.outputs.names)
        ELSE last.error = NoError /\ RunsOnly(OutputNames)

\* a single prediction was selected by the name 'predictions' and returned
\* bare
C18_Witness ==
    /\ Predicted
    /\ last.args.outputs = Outputs({"predictions"})
    /\ ~IsDict(last.model.predictions)
    /\ last.ret.kind = "predictions"
    /\ last.ret.val.keys = {"predictions"}
    /\ ~IsDict(last.ret.val.value)

\* C19: when the lazy sequence of predict(as_iterable=True) has ended,
\* predict(as_iterable=False) on the same estimator, arguments and input
\* returns for each output the predictions yielded, concatenated in order,
\* with and without a feed function.
C19_SingleIsAllOfIterable ==
    (last.op = "next" /\ generator.state = "finished") =>
        LET single == predict(last.pre, [last.args EXCEPT !.as_iterable = FALSE],
                              last.data, last.model, generator.input)
            key(k) == IF generator.return_dict THEN k ELSE ""
        IN  /\ single.error = NoError
            /\ single.ret.kind = "predictions"
            /\ \A k \in generator.keys :
                  single.ret.val.value.items[key(k)] =
                     [i \in 1..Len(generator.yielded) |->
                        generator.yielded[i].items[key(k)]]

\* C20: predict calls the model function in INFER mode with targets None,
\* whatever signatures the estimator has recorded.
C20_InferTargetsNone ==
    (IsCall({"predict"}) /\ "model_fn" \in Range(last.trace))
        => /\ last.called.mode = ModeKeys.INFER
           /\ IsNone(last.called.targets)

(* --------------- the call of the user's model function ------------------ *)
\* What the Estimator's constructor keeps of its arguments: the argument
\* names model_fn declares (_get_arguments), params, and the feature
\* engineering function (None: the identity).
ModelFn(args, params, feature_engineering_fn) ==
    [args |-> args, params |-> params,
     feature_engineering_fn |-> feature_engineering_fn]
Estimator_init_accepting_any(args, params, feature_engineering_fn) ==
    [error |-> NoError, fn |-> ModelFn(args, params, feature_engineering_fn)]
\* Estimator.__init__: params given to a model_fn that declares none is an
\* error
Estimator_init(args, params, feature_engineering_fn) ==
    IF params # None /\ "params" \notin args
    THEN [error |-> ValueError("model_fn has less than 4 arguments, but not None params are passed."),
          fn |-> ModelFn(args, None, None)]
    ELSE [error |-> NoError, fn |-> ModelFn(args, params, feature_engineering_fn)]

\* a feature engineering function of the user: every tensor it returns is a
\* new one, made from the one it was given
Engineered(t) ==
    [kind |-> t.kind,
     items |-> [k \in DOMAIN t.items |-> [t.items[k] EXCEPT !.op = "engineered"]]]
_feature_engineering_fn(fn, features, targets) ==
    IF fn.feature_engineering_fn = None
    THEN _identity_feature_engineering_fn(features, targets)
    ELSE [features |-> Engineered(features), targets |-> Engineered(targets)]

\* The first lines of Estimator._call_model_fn: the arguments model_fn is
\* called with; a keyword that is not passed is Absent.
Absent == "absent"
_model_fn_call_always_with_mode(fn, features, targets, mode) ==
    LET fe == _feature_engineering_fn(fn, features, targets)
    IN  [features |-> fe.features, targets |-> fe.targets, mode |-> mode,
         params |-> IF "params" \in fn.args THEN fn.params ELSE Absent]
_model_fn_call(fn, features, targets, mode) ==
    LET fe == _feature_engineering_fn(fn, features, targets)
    IN  IF "mode" \in fn.args
        THEN IF "params" \in fn.args
             THEN [features |-> fe.features, targets |-> fe.targets,
                   mode |-> mode, params |-> fn.params]
             ELSE [features |-> fe.features, targets |-> fe.targets,
                   mode |-> mode, params |-> Absent]
        ELSE [features |-> fe.features, targets |-> fe.targets,
              mode |-> Absent, params |-> Absent]

\* The Estimators of every constructor call that returns: model functions of
\* two, three and four arguments and one that declares params without mode,
\* with and without params and a feature engineering function.
Declared == {{"features", "targets"}, {"features", "targets", "mode"},
             {"features", "targets", "mode", "params"},
             {"features", "targets", "params"}}
ModelFns ==
    {c.fn : c \in {b \in {Estimator_init(args, params, fe) :
                            args \in Declared, params \in {None, "params"},
                            fe \in {None, "fn"}} : b.error = NoError}}

\* every constructor call, with what it was given and what came of it; a
\* constructor that raised leaves no Estimator to call
Constructed ==
    {[args |-> args, params |-> params,
      init |-> Estimator_init(args, params, fe)] :
        args \in Declared, params \in {None, "params"}, fe \in {None, "fn"}}

InitDispatch ==
    /\ config \in {c \in Configs : c.execution_mode = "absent" /\ c.task = 0}
    /\ generator = NoGenerator
    /\ last = NoCall
    /\ mt = NoInvocation
    /\ twin = NoTwin
    /\ pandas = NoInvocation
    /\ copies = NoCopies
    /\ \E info \in {NoneT, create_signatures(Single(tI))} :
          estimator = [NewEstimator(1) EXCEPT !.targets_info = info]
    /\ \E op \in {"fit", "evaluate", "predict"}, c \in Constructed,
          f \in {Single(fA), Single(fB)}, t \in {NoneT, Single(tI), tY} :
          mf = [done |-> FALSE, op |-> op, declared |-> c.args,
                params |-> c.params, error |-> c.init.error, fn |-> c.init.fn,
                data |-> Data(f, t), given |-> NoArguments,
                out |-> _model_fn_call(c.init.fn, NoneT, NoneT, None)]

\* what _get_train_ops, _get_eval_ops and _get_predict_ops hand to
\* _call_model_fn, and the call of model_fn that follows
Dispatch(given) ==
    mf' = [mf EXCEPT !.done = TRUE, !.given = given,
                     !.out = _model_fn_call(mf.fn, given.features, given.targets,
                                            given.mode)]
DispatchTrain ==
    /\ mf.error = NoError /\ ~mf.done /\ mf.op = "fit"
    /\ Dispatch(_get_train_ops(mf.data.features, mf.data.targets, GoodModel).called)
    /\ UNCHANGED <<estimator, config, generator, last, mt, twin, pandas, copies>>
DispatchEval ==
    /\ mf.error = NoError /\ ~mf.done /\ mf.op = "evaluate"
    /\ Dispatch(_get_eval_ops(mf.data.features, mf.data.targets, EmptyFn, <<>>,
                              GoodModel).called)
    /\ UNCHANGED <<estimator, config, generator, last, mt, twin, pandas, copies>>
DispatchPredict ==
    /\ mf.error = NoError /\ ~mf.done /\ mf.op = "predict"
    /\ Dispatch(_get_predict_ops(estimator, _get_features_from_input_fn(mf.data),
                                 GoodModel).called)
    /\ UNCHANGED <<estimator, config, generator, last, mt, twin, pandas, copies>>

NextDispatch == DispatchTrain \/ DispatchEval \/ DispatchPredict
SpecDispatch == InitDispatch /\ [][NextDispatch]_vars

\* the mode of each method, and the features and targets its _get_*_ops
\* gets: the input function's, but in predict the targets are the
\* placeholders of the recorded targets signature
ModeOfOp(op) == IF op = "fit" THEN ModeKeys.TRAIN
                ELSE IF op = "evaluate" THEN ModeKeys.EVAL
                ELSE ModeKeys.INFER
HookOutput ==
    _feature_engineering_fn(
        mf.fn, mf.data.features,
        IF mf.op = "predict"
        THEN create_placeholders_from_signatures(estimator.targets_info)
        ELSE mf.data.targets)
PassedAsDeclared(keywords) ==
    /\ mf.out.features = HookOutput.features
    /\ mf.out.targets = HookOutput.targets
    /\ mf.out.mode = (IF "mode" \in keywords THEN ModeOfOp(mf.op) ELSE Absent)
    /\ mf.out.params = (IF "params" \in keywords THEN mf.fn.params ELSE Absent)

InvalidArgument ==
    ~ \/ /\ last.args.input_fn = None
          /\ last.args.x = "array"
       \/ /\ last.args.input_fn # None
          /\ last.args.x = None
          /\ last.args.batch_size = None
NoCheckpoint == last.pre.checkpoint = 0
MissingPredictions == IsNone(last.model.predictions)
EmptyFilter ==
    /\ last.args.outputs.list
    /\ last.args.outputs.names # {}
    /\ OutputNames \cap last.args.outputs.names = {}
NoStepTwice(trace) ==
    \A i, j \in DOMAIN trace : trace[i] = trace[j] => i = j

\* C22: predict(as_iterable=True) raises its invalid-argument, not-fitted,
\* missing-predictions and empty-filter errors itself and then returns no
\* lazy sequence; it returns the lazy sequence exactly when it raised
\* nothing, iterating the sequence raises none of these errors, and no step
\* of a call is taken twice.
C22_PredictRaisesAtOnce ==
    /\ (IsCall({"predict"}) /\ last.args.as_iterable) =>
          /\ (InvalidArgument \/ NoCheckpoint \/ MissingPredictions \/ EmptyFilter)
                => /\ last.error.type \in {"ValueError", "NotFittedError"}
                   /\ generator = NoGenerator
          /\ (last.ret.kind = "generator") = (last.error = NoError)
          /\ NoCheckpoint => last.error.type = "NotFittedError" \/ InvalidArgument
    /\ last.op = "next" =>
          /\ last.error = NoError
          /\ ~(InvalidArgument \/ NoCheckpoint \/ MissingPredictions \/ EmptyFilter)
    /\ NoStepTwice(last.trace)

\* predict(as_iterable=True) with a list of outputs that names none of the
\* model's raised ValueError and returned no lazy sequence
C22_Witness ==
    /\ IsCall({"predict"})
    /\ last.args.as_iterable
    /\ EmptyFilter
    /\ ~InvalidArgument /\ ~NoCheckpoint /\ ~MissingPredictions
    /\ last.error.type = "ValueError"
    /\ last.ret.kind = None
    /\ generator = NoGenerator

(* ------------------------- the config property -------------------------- *)
\* BaseEstimator.config: copy.deepcopy(self._config), a new object equal to
\* the estimator's own; c is the record of the objects returned so far
BaseEstimator_config_returning_own(cfg, c) ==
    [objects |-> c.objects, reads |-> Append(c.reads, 0)]
BaseEstimator_config(cfg, c) ==
    [objects |-> Append(c.objects, cfg),
     reads |-> Append(c.reads, Len(c.objects) + 1)]

\* One valid call of each method, on inputs the model function accepts.
Plain ==
    [fit |-> [x : {None}, y : {None}, input_fn : {"fn"}, steps : {None},
              batch_size : {None}, monitors : {<<>>}, max_steps : {None}],
     evaluate |-> [x : {None}, y : {None}, input_fn : {"fn"}, feed_fn : {None},
                   batch_size : {None}, metrics : {NoMetrics}],
     predict |-> [x : {None}, input_fn : {"fn"}, batch_size : {None},
                  outputs : {NoOutputs}, as_iterable : {FALSE}],
     features |-> {Single(fA)},
     targets |-> {Single(tI)},
     streams |-> {OneExample},
     models |-> {GoodModel}]

\* what a caller can assign to the attributes of a RunConfig it holds
Assignments == {"execution_mode = 'train'", "execution_mode = 'evaluate'",
                "task = MaxTask"}
Assigned(cfg, as) ==
    IF as = "execution_mode = 'train'" THEN [cfg EXCEPT !.execution_mode = "train"]
    ELSE IF as = "execution_mode = 'evaluate'"
    THEN [cfg EXCEPT !.execution_mode = "evaluate"]
    ELSE [cfg EXCEPT !.task = MaxTask]

InitConfig ==
    /\ estimator = NewEstimator(0)
    /\ config \in {c \in Configs : c.task <= 1}
    /\ generator = NoGenerator
    /\ last = NoCall
    /\ mf = NoInvocation
    /\ mt = NoInvocation
    /\ twin = NoTwin
    /\ pandas = NoInvocation
    /\ copies = NoCopies

\* the caller reads estimator.config
ReadConfig ==
    /\ Len(copies.reads) < MaxReads
    /\ copies' = BaseEstimator_config(config, copies)
    /\ UNCHANGED <<estimator, config, generator, last, mf, mt, twin, pandas>>

\* the caller assigns to an attribute of an object it has read: of the
\* estimator's own RunConfig when that is what it holds (reference 0)
AssignToRead ==
    \E i \in DOMAIN copies.reads, as \in Assignments :
        LET r == copies.reads[i]
        IN  IF r = 0
            THEN /\ config' = Assigned(config, as)
                 /\ config' # config
                 /\ UNCHANGED <<estimator, generator, last, mf, mt, twin, pandas,
                                copies>>
            ELSE /\ copies' = [copies EXCEPT !.objects[r] = Assigned(@, as)]
                 /\ copies' # copies
                 /\ UNCHANGED <<estimator, config, generator, last, mf, mt, twin,
                                pandas>>

FitConfigured == FitOver(Plain)
EvaluateConfigured == EvaluateOver(Plain)
PredictConfigured == PredictOver(Plain)

NextConfig ==
    ReadConfig \/ AssignToRead \/ FitConfigured \/ EvaluateConfigured
    \/ PredictConfigured
SpecConfig == InitConfig /\ [][NextConfig]_vars

\* C23: no step changes the run configuration the estimator's calls use,
\* whatever is assigned to the objects the config property returned; and
\* every read returns an object that no earlier read returned, that is not
\* the estimator's own, and that equals the estimator's configuration.
C23_ConfigIsACopy ==
    [][/\ config' = config
       /\ Len(copies'.reads) > Len(copies.reads) =>
             LET r == copies'.reads[Len(copies'.reads)]
             IN  /\ r # 0
                 /\ r \notin Range(copies.reads)
                 /\ copies'.objects[r] = config']_vars

\* two objects were read, one was made an evaluating worker's, and fit
\* still trained under the configuration the estimator was built with
C23_Witness ==
    /\ Len(copies.reads) = 2
    /\ copies.reads[1] # copies.reads[2]
    /\ \E r \in Range(copies.reads) : copies.objects[r].execution_mode = "evaluate"
    /\ config.execution_mode = "train"
    /\ IsCall({"fit"})
    /\ "_monitored_train" \in Range(last.trace)

\* the latest call was given no input function, and a tensor as x or y or a
\* feed function next to x or y
RawTensorOrFeedFn ==
    /\ last.args.input_fn = None
    /\ \/ last.args.x = "Tensor"
       \/ ArgY = "Tensor"
       \/ ArgFeedFn # None /\ (last.args.x # None \/ ArgY # None)

\* C24: a fit, partial_fit, evaluate or predict call without an input
\* function raises ValueError when x or y is a tensor and when a feed
\* function comes with x or y, before a data feeder is set up and before any
\* other step of the call.
C24_RawTensorsRejected ==
    (IsCall(AllOps) /\ RawTensorOrFeedFn) =>
        /\ last.error.type = "ValueError"
        /\ "setup_train_data_feeder" \notin Range(last.trace)
        /\ last.trace = <<>>
        /\ estimator = last.pre

\* evaluate was given arrays and a feed function, and raised ValueError
\* without setting up a data feeder
C24_Witness ==
    /\ IsCall({"evaluate"})
    /\ last.args.input_fn = None
    /\ last.args.x = "array"
    /\ last.args.y = "array"
    /\ last.args.feed_fn # None
    /\ last.error.type = "ValueError"
    /\ last.trace = <<>>

(* ------------------------------ pandas_io ------------------------------- *)
\* The dtype names the extractors accept.
PANDAS_DTYPES ==
    [n \in {"int8", "int16", "int32", "int64", "uint8", "uint16", "uint32",
            "uint64", "float16", "float32", "float64", "bool"} |->
       IF n \in {"float16", "float32", "float64"} THEN "float"
       ELSE IF n = "bool" THEN "i" ELSE "int"]

\* A dtype has a name and is of a kind; a column has a label and a dtype.  A
\* DataFrame has a sequence of columns, a Series one column, and any other
\* object (an array, a list) none that the extractors look at.
Dtype(name, kind) == [name |-> name, kind |-> kind]
Column(label, dtype) == [label |-> label, dtype |-> dtype]
DataFrame(columns) == [type |-> "DataFrame", columns |-> columns]
Series(column) == [type |-> "Series", columns |-> <<column>>]
Object(type) == [type |-> type, columns |-> <<>>]
\* isinstance(data, pd.DataFrame): a Series is not a DataFrame
IsDataFrame(data) == data.type = "DataFrame"
\* data.values, and data.values.astype('float')
values(data) == [type |-> "ndarray", columns |-> data.columns]
astype_float(array) ==
    [type |-> "ndarray",
     columns |-> [i \in DOMAIN array.columns |->
                    Column(array.columns[i].label, Dtype("float64", "float"))]]

Extracted(error, found, ret) == [error |-> error, found |-> found, ret |-> ret]
NoExtraction == Extracted(NoError, <<>>, Object(None))
\* [column for column in data if data[column].dtype.name not in PANDAS_DTYPES]
bad_data(data) ==
    LET Bad(column) == column.dtype.name \notin DOMAIN PANDAS_DTYPES
    IN  SelectSeq(data.columns, Bad)
\* the error report: the label and the dtype name of each column of bad
error_report(bad) ==
    [i \in DOMAIN bad |-> [label |-> bad[i].label, type |-> bad[i].dtype.name]]

extract_pandas_data_reporting_first(data) ==
    IF ~IsDataFrame(data) THEN Extracted(NoError, <<>>, data)
    ELSE IF bad_data(data) = <<>>
    THEN Extracted(NoError, <<>>, astype_float(values(data)))
    ELSE Extracted(ValueError("Data types for extracting pandas data must be int, float, or bool."),
                   error_report(<<Head(bad_data(data))>>), Object(None))
extract_pandas_data(data) ==
    IF ~IsDataFrame(data) THEN Extracted(NoError, <<>>, data)
    ELSE IF bad_data(data) = <<>>
    THEN Extracted(NoError, <<>>, astype_float(values(data)))
    ELSE Extracted(ValueError("Data types for extracting pandas data must be int, float, or bool."),
                   error_report(bad_data(data)), Object(None))

extract_pandas_labels(labels) ==
    IF IsDataFrame(labels)
    THEN IF Len(labels.columns) > 1
         THEN Extracted(ValueError("Only one column for labels is allowed."),
                        <<>>, Object(None))
         ELSE IF bad_data(labels) = <<>>
         THEN Extracted(NoError, <<>>, values(labels))
         ELSE Extracted(ValueError("Data types for extracting labels must be int, float, or bool."),
                        error_report(bad_data(labels)), Object(None))
    ELSE Extracted(NoError, <<>>, labels)

\* The inputs: dtypes of every kind, DataFrames of up to MaxColumns columns
\* labelled in order, a Series of each dtype, and two objects that are
\* neither.
Dtypes == {Dtype("int64", "int"), Dtype("uint8", "int"), Dtype("float32", "float"),
           Dtype("bool", "bool"), Dtype("object", "object"),
           Dtype("datetime64[ns]", "datetime")}
Labels == <<"a", "b", "c", "d">>
DataFrames ==
    {DataFrame([i \in 1..Len(ds) |-> Column(Labels[i], ds[i])]) :
        ds \in SeqsUpTo(Dtypes, MaxColumns)}
PandasInputs ==
    DataFrames \cup {Series(Column("a", d)) : d \in Dtypes}
    \cup {Object("ndarray"), Object("list")}

InitPandas ==
    /\ estimator = NewEstimator(0)
    /\ config \in {c \in Configs : c.execution_mode = "absent" /\ c.task = 0}
    /\ generator = NoGenerator
    /\ last = NoCall
    /\ mf = NoInvocation
    /\ mt = NoInvocation
    /\ twin = NoTwin
    /\ copies = NoCopies
    /\ \E fn \in {"extract_pandas_data", "extract_pandas_labels"},
          input \in PandasInputs :
          pandas = [done |-> FALSE, fn |-> fn, input |-> input, out |-> NoExtraction]

ExtractPandasData ==
    /\ ~pandas.done /\ pandas.fn = "extract_pandas_data"
    /\ pandas' = [pandas EXCEPT !.done = TRUE,
                                !.out = extract_pandas_data(pandas.input)]
    /\ UNCHANGED <<estimator, config, generator, last, mf, mt, twin, copies>>
ExtractPandasLabels ==
    /\ ~pandas.done /\ pandas.fn = "extract_pandas_labels"
    /\ pandas' = [pandas EXCEPT !.done = TRUE,
                                !.out = extract_pandas_labels(pandas.input)]
    /\ UNCHANGED <<estimator, config, generator, last, mf, mt, twin, copies>>

NextPandas == ExtractPandasData \/ ExtractPandasLabels
SpecPandas == InitPandas /\ [][NextPandas]_vars

\* the columns of the input whose dtype is not of an int, float or bool kind
Offending ==
    {i \in DOMAIN pandas.input.columns :
        pandas.input.columns[i].dtype.kind \notin {"int", "float", "bool"}}
Did(fn) == pandas.done /\ pandas.fn = fn

C26_LabelsChecked ==
    Did("extract_pandas_labels") =>
        IF pandas.input.type \in {"DataFrame", "Series"}
        THEN /\ Len(pandas.input.columns) > 1 =>
                   pandas.out.error = ValueError("Only one column for labels is allowed.")
             /\ (Len(pandas.input.columns) <= 1 /\ Offending # {}) =>
                   /\ pandas.out.error.type = "ValueError"
                   /\ pandas.out.error # ValueError("Only one column for labels is allowed.")
             /\ (Len(pandas.input.columns) <= 1 /\ Offending = {}) =>
                   pandas.out.error = NoError
        ELSE pandas.out.error = NoError /\ pandas.out.ret = pandas.input

\* the metric ops an entry of the evaluated mapping was taken from
Pair(n) == last.ret.val.eval_dict[n].of.returns = "pair"
Evaluated == Succeeded({"evaluate"}) /\ last.ret.kind = "results"

\* C27: of a metric whose ops are a tuple of two, evaluate runs the first
\* element inside the combined update and reports the second as the metric's
\* value; a metric that is not such a tuple adds nothing to the update and is
\* reported whole; there is no combined update exactly when no metric is a
\* tuple of two.
C27_UpdateThenValue ==
    Evaluated =>
        /\ \A n \in DOMAIN last.ret.val.eval_dict :
              LET ops == last.ret.val.eval_dict[n].of
              IN  IF Pair(n)
                  THEN /\ Part(ops, 0) \in last.ret.val.update_op
                       /\ last.ret.val.eval_dict[n] = Part(ops, 1)
                  ELSE /\ last.ret.val.eval_dict[n] = Whole(ops)
                       /\ \A u \in last.ret.val.update_op : u.of # ops
        /\ (last.ret.val.update_op = {})
              = (\A n \in DOMAIN last.ret.val.eval_dict : ~Pair(n))

\* the steps of a training or evaluating call, in the order of the code
StepsOf(op) ==
    <<"Graph", "create_global_step", "input_fn", "_check_inputs", "model_fn",
      IF op = "evaluate" THEN "graph_actions.evaluate" ELSE "_monitored_train">>
InOrder ==
    LET OfCall(step) == step \in Range(StepsOf(last.op))
        Taken(t) == t = SubSeq(StepsOf(last.op), 1, Len(t))
    IN  Taken(SelectSeq(last.trace, OfCall))

\* C28: the steps a fit, partial_fit or evaluate call takes are an initial
\* part of: new graph, global step, input function, signature check, model
\* function, engine loop, each once and in this order; and a call whose input
\* is incompatible with a recorded signature raises ValueError without
\* calling the model function or the engine.
C28_StepsInOrder ==
    IsCall({"fit", "partial_fit", "evaluate"}) =>
        /\ InOrder
        /\ ("input_fn" \in Range(last.trace) /\ Incompatible) =>
              /\ last.error.type = "ValueError"
              /\ "_check_inputs" \in Range(last.trace)
              /\ "model_fn" \notin Range(last.trace)
              /\ Range(last.trace) \cap EngineSteps = {}
              /\ last.called = NoArguments

\* a fit on incompatible input stopped at the signature check
C28_Witness ==
    /\ IsCall({"fit"})
    /\ Incompatible
    /\ last.error.type = "ValueError"
    /\ Len(last.trace) >= 4
    /\ last.trace[Len(last.trace)] = "_check_inputs"
    /\ last.trace[Len(last.trace) - 1] = "input_fn"

\* what a caller can see of the estimator: its signatures and its graph
Observable(self) ==
    [features_info |-> self.features_info, targets_info |-> self.targets_info,
     graph |-> self.graph]

\* C29: a call that fails because its arguments are invalid, or with
\* NotFittedError, leaves both signatures and the estimator's graph as they
\* were, and the model directory too.
C29_FailedCallChangesNothing ==
    (IsCall(AllOps) /\ (~ValidArguments \/ last.error.type = "NotFittedError")) =>
        /\ last.error.type \in {"ValueError", "NotFittedError"}
        /\ Observable(estimator) = Observable(last.pre)
        /\ estimator.checkpoint = last.pre.checkpoint

\* evaluate on an estimator without signatures and without a checkpoint
\* raised NotFittedError and recorded no signature
C29_Witness ==
    /\ IsCall({"evaluate"})
    /\ ValidArguments
    /\ last.error.type = "NotFittedError"
    /\ IsNone(last.pre.features_info)
    /\ IsNone(estimator.features_info)
    /\ IsNone(estimator.targets_info)

\* the errors of a model function that omitted a required output or
\* returned a loss of several elements
ModelFnErrors == {ValueError("Missing train_op."), ValueError("Missing loss."),
                  ValueError("Loss must be scalar.")}

\* C30: a fit, partial_fit or evaluate call that fails on what the model
\* function returned leaves both stored signatures as they were.
C30_FailedModelFnKeepsSignatures ==
    (IsCall({"fit", "partial_fit", "evaluate"}) /\ last.error \in ModelFnErrors) =>
        /\ estimator.features_info = last.pre.features_info
        /\ estimator.targets_info = last.pre.targets_info

\* the errors of a signature check that found its input incompatible
SignatureErrors ==
    {ValueError("Features are incompatible with given information."),
     ValueError("Targets are incompatible with given information.")}

\* C31: whenever a target signature is recorded a feature signature is
\* recorded too, and a call whose signature check raised, for features or for
\* targets, leaves both stored signatures as they were before the call.
C31_SignatureCheckAtomic ==
    /\ ~IsNone(estimator.targets_info) => ~IsNone(estimator.features_info)
    /\ (IsCall(AllOps) /\ last.error \in SignatureErrors) =>
          /\ "_check_inputs" \in Range(last.trace)
          /\ Incompatible
          /\ estimator.features_info = last.pre.features_info
          /\ estimator.targets_info = last.pre.targets_info

\* a training call found the features incompatible on an estimator that held
\* a feature signature and no target signature yet, and was given targets
C31_Witness ==
    /\ IsCall({"fit", "partial_fit"})
    /\ last.error = ValueError("Features are incompatible with given information.")
    /\ ~IsNone(last.pre.features_info)
    /\ IsNone(last.pre.targets_info)
    /\ ~IsNone(last.data.targets)
    /\ IsNone(estimator.targets_info)

\* the graphs constructed up to a state of the estimator, with no graph (0)
GraphsUpTo(self) == 0 .. self.next_graph
TrainingRole == ~_returns_at_once(config)

\* C32: a predict call, and every step of iterating what it returned, leaves
\* both stored signatures as they were; evaluate and predict leave the
\* estimator's graph as it was; the estimator's graph changes only in a fit or
\* partial_fit under a configuration that trains, every such call that gets
\* past the validation of its arguments assigns one, and the graph assigned is
\* none of the graphs constructed before the call.
C32_OnlyTrainingAssignsGraph ==
    [][/\ last'.op \in {"predict", "next"} =>
              /\ estimator'.features_info = estimator.features_info
              /\ estimator'.targets_info = estimator.targets_info
       /\ last'.op \in {"evaluate", "predict", "next"} =>
              estimator'.graph = estimator.graph
       /\ estimator'.graph # estimator.graph =>
              /\ last'.op \in {"fit", "partial_fit"}
              /\ TrainingRole
              /\ estimator'.graph \notin GraphsUpTo(estimator)
       /\ (last'.op \in {"fit", "partial_fit"} /\ ValidArguments' /\ TrainingRole) =>
              estimator'.graph # estimator.graph]_vars

\* a fit on an estimator that an earlier fit had given a graph
C32_Witness ==
    /\ IsCall({"fit"})
    /\ TrainingRole
    /\ last.pre.graph # 0
    /\ estimator.graph \notin GraphsUpTo(last.pre)
    /\ last.error = NoError

(* --------------- the lazy sequence over an engine that fails ------------ *)
\* What goes wrong when the generator asks the engine for the next output
\* batch: nothing, an error of the engine's run, or an error of the caller's
\* feed function, which run_feeds_iter calls to get the batch's feed.
EngineFaults == {None, "engine", "feed_fn"}
EngineError == [type |-> "InternalError", msg |-> "graph_actions.run_feeds_iter"]
FeedError == [type |-> "ValueError", msg |-> "feed_fn"]

\* the except clause around the loop over run_feeds_iter
_infer_model_as_iterable_except_catching_all(error) == TRUE
_infer_model_as_iterable_except(error) == error.type = "OutOfRangeError"

\* One next() of the generator under a fault.  Unpacking the rest of an
\* output batch runs neither the engine nor the feed function; an exception
\* that leaves the generator's body ends the generator; a next() of a
\* generator that has ended raises StopIteration and runs nothing.
_infer_model_as_iterable_raising(gen, fault) ==
    LET started == IF gen.state = "created"
                   THEN <<"graph_actions.run_feeds_iter">> ELSE <<>>
        Handle(error) ==
            IF _infer_model_as_iterable_except(error)
            THEN [generator |-> [gen EXCEPT !.state = "finished"],
                  error |-> NoError, trace |-> started \o <<error.type>>,
                  ret |-> Ret("StopIteration", 0)]
            ELSE [generator |-> [gen EXCEPT !.state = "finished"],
                  error |-> error, trace |-> started \o <<error.type>>,
                  ret |-> NoRet]
    IN  IF gen.state = "finished"
        THEN [generator |-> gen, error |-> NoError, trace |-> <<>>,
              ret |-> Ret("StopIteration", 0)]
        ELSE IF fault = None \/ gen.batch # <<>>
        THEN _infer_model_as_iterable_next(gen)
        ELSE Handle(IF fault = "engine" THEN EngineError ELSE FeedError)

InitConsume ==
    /\ config \in {c \in Configs : c.task = 0}
    /\ estimator = NewEstimator(1)
    /\ generator = NoGenerator
    /\ last = NoCall
    /\ mf = NoInvocation
    /\ mt = NoInvocation
    /\ twin = NoTwin
    /\ pandas = NoInvocation
    /\ copies = NoCopies

PredictLazily == last.op = None /\ PredictOver(Streaming)

\* one next() of the consumer; the record of the call keeps the fault
Consume ==
    /\ generator.state \in {"created", "running", "finished"}
    /\ \E fault \in EngineFaults :
          /\ fault = "feed_fn" => generator.feed_fn # None
          /\ LET out == _infer_model_as_iterable_raising(generator, fault)
             IN  /\ generator' = out.generator
                 /\ last' = [last EXCEPT !.op = "next", !.args = [fault |-> fault],
                                         !.error = out.error, !.trace = out.trace,
                                         !.ret = out.ret]
    /\ UNCHANGED <<estimator, config, mf, mt, twin, pandas, copies>>

NextConsume == PredictLazily \/ Consume

SpecConsume == InitConsume /\ [][NextConsume]_vars

\* the batches the engine has produced so far
Consumed(gen) == SubSeq(gen.input, 1, Len(gen.input) - Len(gen.feed))
\* this next() asks the engine for an output batch
AsksEngine(gen) == gen.state # "finished" /\ gen.batch = <<>>

\* C33: a next() of the lazy prediction sequence raises exactly when the
\* engine or the feed function fails with something other than the end of
\* the input; the error is theirs, it reaches the consumer at that next(),
\* when the prediction of every example of every batch produced before has
\* been yielded, in order; the sequence has then ended, and every later
\* next() finds it ended and yields nothing.
C33_OnlyEndOfInputSuppressed ==
    [][last'.op = "next" =>
          LET fault == last'.args.fault
              fails == AsksEngine(generator) /\ fault # None
          IN  /\ fails =>
                    /\ last'.error = (IF fault = "engine" THEN EngineError
                                      ELSE FeedError)
                    /\ last'.ret = NoRet
                    /\ generator'.state = "finished"
                    /\ generator'.yielded = generator.yielded
                    /\ generator.yielded =
                          [i \in 1..Len(Examples(Consumed(generator))) |->
                             ItemOf(generator, Examples(Consumed(generator))[i])]
              /\ ~fails => last'.error = NoError
              /\ generator.state = "finished" =>
                    /\ generator' = generator
                    /\ last'.ret.kind = "StopIteration"]_vars

\* the engine failed after a batch of two examples was yielded and before
\* the rest of the input was read
C33_Witness ==
    /\ last.op = "next"
    /\ last.error = EngineError
    /\ generator.state = "finished"
    /\ Len(generator.yielded) = 2
    /\ generator.feed # <<>>

\* the constructor was given params the model function has no argument for
Undeclared == mf.params # None /\ "params" \notin mf.declared
Rejected == mf.error.type = "ValueError" /\ ~mf.done

MaxArgs == 2
MaxWraps == 2
\* the depth of calls at which the interpreter raises, in place of
\* sys.getrecursionlimit()
RecursionLimit == MaxWraps + 3
Callable(args, wraps) == [args |-> args, wraps |-> wraps]
RecursionError == [type |-> "RecursionError",
                   msg |-> "maximum recursion depth exceeded"]

\* hasattr(func, '__code__'): a function has its code, and a bound method
\* hands out the attributes of its function
HasCode(func) == func.wraps = <<>> \/ Head(func.wraps) = "method"
\* hasattr(func, '__call__'): every callable has it
HasCall(func) == TRUE
\* hasattr(func, 'func'): the function a partial wraps
HasFunc(func) == func.wraps # <<>> /\ Head(func.wraps) = "partial"
\* func.__call__
func__call__(func) ==
    IF func.wraps # <<>> /\ Head(func.wraps) = "object"
    THEN Callable(func.args, <<"method">>)
    ELSE Callable(func.args, <<"method-wrapper">> \o func.wraps)
\* func.func
func_func(func) == Callable(func.args, Tail(func.wraps))
\* inspect.getargspec(func).args
getargspec_args(func) == func.args

\* _get_arguments(func) called at depth d of the interpreter's stack
RECURSIVE _get_arguments_at(_, _)
_get_arguments_at(func, d) ==
    IF d > RecursionLimit THEN [error |-> RecursionError, ret |-> <<>>]
    ELSE IF HasCode(func) THEN [error |-> NoError, ret |-> getargspec_args(func)]
    ELSE IF HasCall(func) THEN _get_arguments_at(func__call__(func), d + 1)
    ELSE IF HasFunc(func) THEN _get_arguments_at(func_func(func), d + 1)
    ELSE [error |-> NoError, ret |-> <<>>]
_get_arguments(func) == _get_arguments_at(func, 1)

\* The callables given as model_fn: functions of up to MaxArgs arguments,
\* instances whose __call__ is such a function, and partials, up to MaxWraps
\* deep, of either.
ArgumentNames == {"features", "targets", "mode", "params"}
ArgumentLists ==
    {a \in SeqsUpTo(ArgumentNames, MaxArgs) :
        \A i, j \in 1..Len(a) : a[i] = a[j] => i = j}
Wrappings ==
    {w \in SeqsUpTo({"partial", "object"}, MaxWraps) :
        \A i \in 1..Len(w) : w[i] = "object" => i = Len(w)}
Callables ==
    {Callable(IF w # <<>> /\ w[Len(w)] = "object" THEN <<"self">> \o a ELSE a, w) :
        a \in ArgumentLists, w \in Wrappings}

InitArguments ==
    /\ config \in {c \in Configs : c.execution_mode = "absent" /\ c.task = 0}
    /\ estimator = NewEstimator(0)
    /\ generator = NoGenerator
    /\ last = NoCall
    /\ mt = NoInvocation
    /\ twin = NoTwin
    /\ pandas = NoInvocation
    /\ copies = NoCopies
    /\ \E func \in Callables :
          mf = [done |-> FALSE, func |-> func,
                out |-> [error |-> NoError, ret |-> <<>>]]

GetArguments ==
    /\ ~mf.done
    /\ mf' = [mf EXCEPT !.done = TRUE, !.out = _get_arguments(mf.func)]
    /\ UNCHANGED <<estimator, config, generator, last, mt, twin, pandas, copies>>

SpecArguments == InitArguments /\ [][GetArguments]_vars

\* the arguments a callable declares: a function's own, an instance's those
\* of its __call__, a partial's those of what it wraps
RECURSIVE DeclaredArguments(_)
DeclaredArguments(func) ==
    IF func.wraps # <<>> /\ Head(func.wraps) = "partial"
    THEN DeclaredArguments(Callable(func.args, Tail(func.wraps)))
    ELSE func.args

\* C35: _get_arguments returns, without raising, the declared argument
\* names of the callable it is given: a function's own, those of the
\* __call__ of a callable object, those of the function a partial wraps.
C35_ArgumentsOfEveryKind ==
    mf.done =>
       /\ mf.out.error = NoError
       /\ mf.out.ret = DeclaredArguments(mf.func)

====
